---- MODULE Spec2Model ----
(***************************************************************************)
(* booking-system-frontend: the auth provider (context/AuthProvider.jsx),  *)
(* the route table (App.jsx) with PrivateRoute, the login page and the     *)
(* bookings page, as state machines.  Promise continuations are the atomic *)
(* steps: everything a handler does between two awaits is one action, and  *)
(* the effects React runs after the resulting render are part of it.       *)
(***************************************************************************)
EXTENDS Naturals, Sequences, FiniteSets, TLC

\* ------------------------------------------------------------------ bounds
\* requests of the auth provider (load-user GETs and login calls) in flight
MaxInFlight == 2
\* bookings the backend holds for the user when the bookings page mounts
MaxBookings == 2
\* DELETE requests of the bookings page in flight
MaxDeletes == 2
\* resources the backend holds when the resource page mounts
MaxResources == 2
\* PUT and POST requests one mounted resource page sends
MaxWrites == 1
\* DELETE requests of the resource page in flight
MaxResourceDeletes == 1

\* ------------------------------------------------------------------ values
NULL == "null"
\* cancellingId when no deletion is tracked (null in the source); ids start at 1
NoId == 0
Tokens == {"tA", "tB"}
\* the account a token authenticates (GET auth/users/me/ answers with it)
UserOf(t) == IF t = "tA" THEN "alice" ELSE "bob"
Users == {UserOf(t) : t \in Tokens}
\* the token the backend issues for an account (POST auth/token/login/)
TokenOf(u) == IF u = "alice" THEN "tA" ELSE "tB"

VARIABLES
    ls,          \* localStorage 'token' entry, NULL when absent
    user,        \* AuthProvider state: user
    token,       \* AuthProvider state: token
    loading,     \* AuthProvider state: loading
    route,       \* the router's location
    loadReqs,    \* GET auth/users/me/ requests of loadUser in flight
    logins,      \* login() calls in flight
    lpLoading,   \* LoginPage state: loading
    lpError,     \* LoginPage state: error
    loginCalled, \* history: login() has been called since the app mounted
    regs,        \* register() calls in flight
    rpLoading,   \* RegisterPage state: loading
    rpError,     \* RegisterPage state: error
    bookings,    \* BookingsPage state: bookings
    bLoading,    \* BookingsPage state: loading
    bError,      \* BookingsPage state: error
    cancellingId,\* BookingsPage state: cancellingId
    fetches,     \* GET /bookings/ requests in flight
    deletes,     \* DELETE /bookings/{id}/ requests in flight
    srv,         \* backend: the user's bookings, a sequence of records
    resources,   \* ResourceListPage state: resources
    rLoading,    \* ResourceListPage state: loading
    rError,      \* ResourceListPage state: error
    showModal,   \* ResourceListPage state: showModal
    editingResource, \* ResourceListPage state: editingResource, NoResource when null
    formData,    \* ResourceListPage state: formData
    formErrors,  \* ResourceListPage state: formErrors, the set of fields with an error
    submitting,  \* ResourceListPage state: submitting
    deletingId,  \* ResourceListPage state: deletingId
    rFetches,    \* GET /resources/ requests in flight
    rSaves,      \* POST and PUT /resources/ requests in flight
    rDeletes,    \* DELETE /resources/{id}/ requests in flight
    rSrv,        \* backend: the resources, a sequence of records
    rNextId,     \* backend: the id the next created resource gets
    rWrites,     \* history: the POST and PUT requests the resource page has sent
    showProfileModal, \* Nav state: showProfileModal
    profilePicture,   \* Nav state: profilePicture, NULL when null
    userPicture, \* auth context: user.profile_picture, NULL when empty
    previewUrl,  \* ProfilePictureUpload state: previewUrl
    uploading,   \* ProfilePictureUpload state: uploading
    picError,    \* ProfilePictureUpload state: error
    picReqs,     \* uploads and removals of the profile picture in flight
    formMounted, \* a BookingForm is mounted
    bookingId,   \* BookingForm prop: bookingId, NoId in create mode
    resourceId,  \* BookingForm prop: resourceId, NoId when absent
    onSuccess,   \* BookingForm prop: an onSuccess callback was supplied
    fResources,  \* BookingForm state: resources, the ids offered in the select
    selectedResourceId, \* BookingForm state: selectedResourceId, NoId when ''
    startTime,   \* BookingForm state: startTime, NoTime when null
    endTime,     \* BookingForm state: endTime, NoTime when null
    notes,       \* BookingForm state: notes
    bookingStatus, \* BookingForm state: status
    fLoading,    \* BookingForm state: loading
    fError,      \* BookingForm state: error
    fSuccess,    \* BookingForm state: success
    fetchingResources, \* BookingForm state: fetchingResources
    fetchingBooking,   \* BookingForm state: fetchingBooking
    fReqs,       \* the BookingForm's requests in flight
    timers,      \* setTimeout callbacks scheduled, each with the time it is due
    now,         \* the clock, in ms
    fSrv,        \* backend: the booking GET /bookings/{bookingId}/ returns
    lastEvent    \* history: the handler or continuation that ran last, with
                 \* what it showed (redirect, window.alert text)

authVars == <<ls, user, token, loading, route, loadReqs, logins, lpLoading,
              lpError, loginCalled>>
regVars == <<regs, rpLoading, rpError>>
pageVars == <<bookings, bLoading, bError, cancellingId, fetches, deletes, srv>>
resVars == <<resources, rLoading, rError, showModal, editingResource, formData,
             formErrors, submitting, deletingId, rFetches, rSaves, rDeletes,
             rSrv, rNextId, rWrites>>
picVars == <<showProfileModal, profilePicture, userPicture, previewUrl, uploading,
             picError, picReqs>>
formVars == <<formMounted, bookingId, resourceId, onSuccess, fResources,
              selectedResourceId, startTime, endTime, notes, bookingStatus,
              fLoading, fError, fSuccess, fetchingResources, fetchingBooking,
              fReqs, timers, now, fSrv>>
vars == <<ls, user, token, loading, route, loadReqs, logins, lpLoading,
          lpError, loginCalled, regs, rpLoading, rpError, bookings, bLoading, bError, cancellingId,
          fetches, deletes, srv, resources, rLoading, rError, showModal,
          editingResource, formData, formErrors, submitting, deletingId,
          rFetches, rSaves, rDeletes, rSrv, rNextId, rWrites, showProfileModal,
          profilePicture, userPicture, previewUrl, uploading, picError, picReqs,
          formMounted, bookingId, resourceId, onSuccess, fResources,
          selectedResourceId, startTime, endTime, notes, bookingStatus,
          fLoading, fError, fSuccess, fetchingResources, fetchingBooking,
          fReqs, timers, now, fSrv, lastEvent>>

\* ---------------------------------------------------------------- helpers
RemoveAt(s, i) == [j \in 1..(Len(s) - 1) |-> IF j < i THEN s[j] ELSE s[j + 1]]

Event(type, arg, redirect) == [type |-> type, arg |-> arg, redirect |-> redirect]

\* ------------------------------------------------------------- route table
PublicPaths == {"/", "/login", "/register", "/forgot-password", "/password-reset"}
ProtectedPaths_NoBookings == {"/bookings/new", "/bookings/edit", "/resources"}
ProtectedPaths == {"/bookings", "/bookings/new", "/bookings/edit", "/resources"}
Paths == PublicPaths \cup {"/bookings", "/bookings/new", "/bookings/edit", "/resources"}

PageOf(path) ==
    CASE path = "/" -> "HomePage"
      [] path = "/login" -> "LoginPage"
      [] path = "/register" -> "RegisterPage"
      [] path = "/forgot-password" -> "ForgotPasswordPage"
      [] path = "/password-reset" -> "PasswordResetConfirmPage"
      [] path = "/bookings" -> "BookingsPage"
      [] path = "/bookings/new" -> "BookingForm"
      [] path = "/bookings/edit" -> "BookingForm"
      [] path = "/resources" -> "ResourceListPage"

\* <PrivateRoute>{children}</PrivateRoute>
PrivateRoute(ld, u, children) ==
    IF ld THEN "Loading..."
    ELSE IF u # NULL THEN children
    ELSE "Navigate"

\* what the router renders at a path, given the auth context
Shown(path, ld, u) ==
    IF path \in ProtectedPaths THEN PrivateRoute(ld, u, PageOf(path))
    ELSE PageOf(path)

\* <Navigate to="/login"> moves the location as soon as it is rendered
Redirects(path, ld, u) == Shown(path, ld, u) = "Navigate"
Settle(path, ld, u) == IF Redirects(path, ld, u) THEN "/login" ELSE path

\* pages that render PageLayout, hence Nav with its Logout item
HasNav(page) == page \in {"BookingsPage", "ResourceListPage"}

\* ---------------------------------------------------------- auth provider
\* the request interceptor: the Authorization header is the stored token
AuthHeader(stored) == stored

LoadReq(auth, initial) == [auth |-> auth, initial |-> initial]

\* useEffect(..., [token]): loadUser runs when token changed to newTok.
\* Returns the load-user requests and loading after the effect.
EffectReqs(oldTok, newTok, stored, reqs) ==
    IF oldTok # newTok /\ newTok # NULL
    THEN Append(reqs, LoadReq(AuthHeader(stored), FALSE))
    ELSE reqs
EffectLoading(oldTok, newTok, ld) ==
    IF oldTok # newTok /\ newTok = NULL THEN FALSE ELSE ld

InFlight == Len(loadReqs) + Len(logins) + Len(regs)

\* LoginPage unmounts when the location leaves /login: its state is dropped
\* and the login calls it started can no longer set it.
Detach(l) == [l EXCEPT !.live = FALSE]
LeaveLogin(ll) ==
    IF route = "/login" THEN [i \in 1..Len(ll) |-> Detach(ll[i])] ELSE ll

\* useState(true) and the first run of the effect: loading stays true exactly
\* when a stored token makes loadUser send its GET
\* RegisterPage unmounts when the location leaves /register
LeaveRegister(rr) ==
    IF route = "/register" THEN [i \in 1..Len(rr) |-> Detach(rr[i])] ELSE rr

LoadingAfterMount_False(stored) == FALSE
LoadingAfterMount(stored) == stored # NULL

\* no RegisterPage has been submitted
RegIdle ==
    /\ regs = <<>>
    /\ rpLoading = FALSE
    /\ rpError = ""

AuthInit ==
    /\ ls \in Tokens \cup {NULL}
    /\ user = NULL
    /\ token = ls
    /\ loading = LoadingAfterMount(ls)
    /\ route \in {Settle(p, loading, user) : p \in Paths}
    /\ loadReqs = IF ls # NULL THEN <<LoadReq(AuthHeader(ls), TRUE)>> ELSE <<>>
    /\ logins = <<>>
    /\ lpLoading = FALSE
    /\ lpError = ""
    /\ loginCalled = FALSE
    /\ RegIdle

\* ------------------------------------------------- resource records, idle page
\* user.is_staff of the account's data
IsStaff(u) == u = "alice"

Resource(id, name, description, capacity, is_available) ==
    [id |-> id, name |-> name, description |-> description,
     capacity |-> capacity, is_available |-> is_available]
\* editingResource = null
NoResource == Resource(NoId, "", "", 0, FALSE)
\* the form data of a closed or freshly opened Add modal
EmptyForm == [name |-> "", description |-> "", capacity |-> 1, is_available |-> TRUE]

ResIdle ==
    /\ resources = <<>>
    /\ rLoading = TRUE
    /\ rError = NULL
    /\ showModal = FALSE
    /\ editingResource = NoResource
    /\ formData = EmptyForm
    /\ formErrors = {}
    /\ submitting = FALSE
    /\ deletingId = NoId
    /\ rFetches = <<>>
    /\ rSaves = <<>>
    /\ rDeletes = <<>>
    /\ rSrv = <<>>
    /\ rNextId = 1
    /\ rWrites = 0

\* ------------------------------------------ idle profile modal, no BookingForm
\* a date picker's null
NoTime == 0
\* the clock when a behaviour starts, in ms
StartOfDay == 1000

PicIdle ==
    /\ showProfileModal = FALSE
    /\ profilePicture = NULL
    /\ userPicture = NULL
    /\ previewUrl = ""
    /\ uploading = FALSE
    /\ picError = ""
    /\ picReqs = <<>>

FormIdle ==
    /\ formMounted = FALSE
    /\ bookingId = NoId
    /\ resourceId = NoId
    /\ onSuccess = FALSE
    /\ fResources = {}
    /\ selectedResourceId = NoId
    /\ startTime = NoTime
    /\ endTime = NoTime
    /\ notes = ""
    /\ bookingStatus = "pending"
    /\ fLoading = FALSE
    /\ fError = NULL
    /\ fSuccess = FALSE
    /\ fetchingResources = FALSE
    /\ fetchingBooking = FALSE
    /\ fReqs = <<>>
    /\ timers = <<>>
    /\ now = StartOfDay
    /\ fSrv = NULL

PageIdle ==
    /\ bookings = <<>>
    /\ bLoading = TRUE
    /\ bError = NULL
    /\ cancellingId = NoId
    /\ fetches = <<>>
    /\ deletes = <<>>
    /\ srv = <<>>

Init ==
    /\ AuthInit
    /\ PageIdle
    /\ ResIdle
    /\ PicIdle
    /\ FormIdle
    /\ lastEvent = Event("mount", ls, FALSE)

\* a link, history.back or history.forward
GoTo(p) ==
    /\ p # route
    /\ route' = Settle(p, loading, user)
    /\ logins' = LeaveLogin(logins)
    /\ lpLoading' = FALSE
    /\ lpError' = ""
    /\ regs' = LeaveRegister(regs)
    /\ rpLoading' = FALSE
    /\ rpError' = ""
    /\ lastEvent' = Event("goto", p, Redirects(p, loading, user))
    /\ UNCHANGED <<ls, user, token, loading, loadReqs, loginCalled>>
    /\ UNCHANGED <<pageVars, resVars, picVars, formVars>>

\* loadUser: the GET succeeded
LoadUserOk(i) ==
    /\ i \in 1..Len(loadReqs)
    /\ loadReqs[i].auth # NULL
    /\ user' = UserOf(loadReqs[i].auth)
    /\ loading' = FALSE
    /\ loadReqs' = RemoveAt(loadReqs, i)
    /\ lastEvent' = Event("loadUserOk", loadReqs[i], FALSE)
    /\ UNCHANGED <<ls, token, route, logins, lpLoading, lpError, loginCalled>>
    /\ UNCHANGED <<pageVars, resVars, picVars, formVars, regVars>>

\* loadUser: the GET failed (401, network error, ...)
LoadUserFail(i) ==
    /\ i \in 1..Len(loadReqs)
    /\ ls' = NULL
    /\ token' = NULL
    /\ loading' = FALSE
    /\ loadReqs' = RemoveAt(loadReqs, i)
    /\ route' = Settle(route, FALSE, user)
    /\ lastEvent' = Event("loadUserFail", loadReqs[i], Redirects(route, FALSE, user))
    /\ UNCHANGED <<user, logins, lpLoading, lpError, loginCalled>>
    /\ UNCHANGED <<pageVars, resVars, picVars, formVars, regVars>>

\* a login() call; before is history, the stored token when it was called
LoginCall(phase, cred, pwOk, auth, newToken) ==
    [phase |-> phase, cred |-> cred, pwOk |-> pwOk, auth |-> auth,
     newToken |-> newToken, live |-> TRUE,
     before |-> ls]

\* LoginPage.handleSubmit up to the await inside login(): the POST is sent
SubmitLogin(u, pwOk) ==
    /\ route = "/login"
    /\ ~lpLoading
    /\ InFlight < MaxInFlight
    /\ lpError' = ""
    /\ lpLoading' = TRUE
    /\ loginCalled' = TRUE
    /\ logins' = Append(logins, LoginCall("post", u, pwOk, AuthHeader(ls), NULL))
    /\ lastEvent' = Event("submitLogin", u, FALSE)
    /\ UNCHANGED <<ls, user, token, loading, route, loadReqs>>
    /\ UNCHANGED <<pageVars, resVars, picVars, formVars, regVars>>

\* login(): what the continuation after a successful POST stores, and the
\* header of the GET auth/users/me/ it then sends
LoginStoreThenGet_GetFirst(stored, newToken) ==
    [stored |-> newToken, header |-> AuthHeader(stored)]
LoginStoreThenGet(stored, newToken) ==
    [stored |-> newToken, header |-> AuthHeader(newToken)]

\* login(): the POST succeeded
LoginPostOk(i) ==
    /\ i \in 1..Len(logins)
    /\ logins[i].phase = "post"
    /\ logins[i].pwOk
    /\ LET newToken == TokenOf(logins[i].cred)
           s == LoginStoreThenGet(ls, newToken) IN
        /\ ls' = s.stored
        /\ token' = newToken
        /\ logins' = [logins EXCEPT ![i].phase = "get", ![i].auth = s.header,
                                    ![i].newToken = newToken]
        /\ loadReqs' = EffectReqs(token, newToken, s.stored, loadReqs)
        /\ lastEvent' = Event("loginPostOk", newToken, FALSE)
    /\ UNCHANGED <<user, loading, route, lpLoading, lpError, loginCalled>>
    /\ UNCHANGED <<pageVars, resVars, picVars, formVars, regVars>>

\* a handleSubmit that navigates whatever login() returned
LoginFailed_Navigates(i, type) ==
    /\ logins' = LeaveLogin(RemoveAt(logins, i))
    /\ lpLoading' = FALSE
    /\ lpError' = ""
    /\ route' = "/"
    /\ lastEvent' = Event(type, logins[i], FALSE)
    /\ UNCHANGED <<ls, user, token, loading, loadReqs, loginCalled>>
    /\ UNCHANGED <<pageVars, resVars, picVars, formVars, regVars>>

\* login() returned false to LoginPage.handleSubmit
LoginFailed(i, type) ==
    /\ logins' = RemoveAt(logins, i)
    /\ lpLoading' = IF logins[i].live THEN FALSE ELSE lpLoading
    /\ lpError' = IF logins[i].live
                  THEN "Invalid username or password. Please try again."
                  ELSE lpError
    /\ lastEvent' = Event(type, logins[i], FALSE)
    /\ UNCHANGED <<ls, user, token, loading, route, loadReqs, loginCalled>>
    /\ UNCHANGED <<pageVars, resVars, picVars, formVars, regVars>>

\* login(): the POST failed
LoginPostFail(i) ==
    /\ i \in 1..Len(logins)
    /\ logins[i].phase = "post"
    /\ LoginFailed(i, "loginPostFail")

\* login(): the GET auth/users/me/ failed
LoginGetFail(i) ==
    /\ i \in 1..Len(logins)
    /\ logins[i].phase = "get"
    /\ LoginFailed(i, "loginGetFail")

\* login(): the GET succeeded; login resolves true and LoginPage navigates
LoginGetOk(i) ==
    /\ i \in 1..Len(logins)
    /\ logins[i].phase = "get"
    /\ logins[i].auth # NULL
    /\ user' = UserOf(logins[i].auth)
    /\ route' = "/"
    /\ logins' = LeaveLogin(RemoveAt(logins, i))
    /\ lpLoading' = FALSE
    /\ lpError' = ""
    /\ regs' = LeaveRegister(regs)
    /\ rpLoading' = FALSE
    /\ rpError' = ""
    /\ lastEvent' = Event("loginGetOk", logins[i], FALSE)
    /\ UNCHANGED <<ls, token, loading, loadReqs, loginCalled>>
    /\ UNCHANGED <<pageVars, resVars, picVars, formVars>>

\* RegisterPage.handleSubmit up to the await inside register(): the POST
\* auth/users/ is sent
SubmitRegister(u) ==
    /\ route = "/register"
    /\ ~rpLoading
    /\ InFlight < MaxInFlight
    /\ rpError' = ""
    /\ rpLoading' = TRUE
    /\ regs' = Append(regs, [cred |-> u, live |-> TRUE])
    /\ lastEvent' = Event("submitRegister", u, FALSE)
    /\ UNCHANGED <<authVars, pageVars, resVars, picVars, formVars>>

\* a registration that also stores a token and a user
RegisterOk_LogsIn(i) ==
    /\ i \in 1..Len(regs)
    /\ route' = "/login"
    /\ regs' = LeaveRegister(RemoveAt(regs, i))
    /\ rpLoading' = FALSE
    /\ rpError' = ""
    /\ ls' = TokenOf(regs[i].cred)
    /\ token' = TokenOf(regs[i].cred)
    /\ user' = regs[i].cred
    /\ lastEvent' = Event("registerOk", regs[i], FALSE)
    /\ UNCHANGED <<loading, loadReqs, logins, lpLoading, lpError, loginCalled>>
    /\ UNCHANGED <<pageVars, resVars, picVars, formVars>>

\* register(): the POST succeeded; the page navigates to /login
RegisterOk(i) ==
    /\ i \in 1..Len(regs)
    /\ route' = "/login"
    /\ regs' = LeaveRegister(RemoveAt(regs, i))
    /\ rpLoading' = FALSE
    /\ rpError' = ""
    /\ lastEvent' = Event("registerOk", regs[i], FALSE)
    /\ UNCHANGED <<ls, user, token, loading, loadReqs, logins, lpLoading, lpError,
                   loginCalled>>
    /\ UNCHANGED <<pageVars, resVars, picVars, formVars>>

\* error.response?.data of a failed POST auth/users/: per field its first
\* message, NULL for a field the backend did not report (all NULL when there
\* was no response)
RegErrors ==
    [email : {NULL, "email taken"}, username : {NULL, "username taken"},
     password : {NULL, "password too common"}, non_field_errors : {NULL, "rejected"}]

\* register(): the message picked from the error data
RegisterErrorText(data) ==
    IF data.email # NULL THEN data.email
    ELSE IF data.username # NULL THEN data.username
    ELSE IF data.password # NULL THEN data.password
    ELSE IF data.non_field_errors # NULL THEN data.non_field_errors
    ELSE "Registration failed. Please check your information and try again."

\* register(): the POST failed; the page shows result.error
RegisterFail(i, data) ==
    /\ i \in 1..Len(regs)
    /\ regs' = RemoveAt(regs, i)
    /\ IF regs[i].live
       THEN /\ rpError' = RegisterErrorText(data)
            /\ rpLoading' = FALSE
       ELSE UNCHANGED <<rpError, rpLoading>>
    /\ lastEvent' = Event("registerFail", [call |-> regs[i], data |-> data], FALSE)
    /\ UNCHANGED <<authVars, pageVars, resVars, picVars, formVars>>

\* the Logout button is offered by HomePage and by Nav, to a logged-in user
CanLogout ==
    /\ user # NULL
    /\ \/ Shown(route, loading, user) = "HomePage"
       \/ HasNav(Shown(route, loading, user))

\* logout(), and the effect of the token change
LogoutState_KeepsStorage(stored) == stored
LogoutState(stored) == NULL

Logout ==
    /\ CanLogout
    /\ ls' = LogoutState(ls)
    /\ token' = NULL
    /\ user' = NULL
    /\ loading' = EffectLoading(token, NULL, loading)
    /\ LET r == Settle(route, loading', NULL) IN
        /\ route' = r
        /\ lastEvent' = Event("logout", route, Redirects(route, loading', NULL))
    /\ UNCHANGED <<loadReqs, logins, lpLoading, lpError, loginCalled>>
    /\ UNCHANGED <<pageVars, resVars, picVars, formVars, regVars>>

Next ==
    \/ \E p \in Paths : GoTo(p)
    \/ \E i \in DOMAIN loadReqs : LoadUserOk(i)
    \/ \E i \in DOMAIN loadReqs : LoadUserFail(i)
    \/ \E u \in Users, pwOk \in BOOLEAN : SubmitLogin(u, pwOk)
    \/ \E i \in DOMAIN logins : LoginPostOk(i)
    \/ \E i \in DOMAIN logins : LoginPostFail(i)
    \/ \E i \in DOMAIN logins : LoginGetOk(i)
    \/ \E i \in DOMAIN logins : LoginGetFail(i)
    \/ \E u \in Users : SubmitRegister(u)
    \/ \E i \in DOMAIN regs : RegisterOk(i)
    \/ \E i \in DOMAIN regs, data \in RegErrors : RegisterFail(i, data)
    \/ Logout

Spec == Init /\ [][Next]_vars

\* ------------------------------------------------------------ bookings page
Statuses == {"pending", "confirmed", "cancelled", "rejected"}
Booking(id, status) == [id |-> id, status |-> status]
\* the lists GET /bookings/ can answer with when the page mounts
BookingLists ==
    UNION {{[i \in 1..n |-> Booking(i, f[i])] : f \in [1..n -> Statuses]} :
           n \in 0..MaxBookings}

\* a rejected request: err.response.status, err.response.data.detail,
\* err.response.data.message and err.message, NULL where absent
Err(status, detail, message, errmsg) ==
    [status |-> status, detail |-> detail, message |-> message, errmsg |-> errmsg]
Errors ==
    {Err("401", "Invalid token.", NULL, "Request failed with status code 401"),
     Err("403", NULL, NULL, "Request failed with status code 403"),
     Err("404", "Not found.", NULL, "Request failed with status code 404"),
     Err("400", "You can only delete your own bookings.", NULL,
         "Request failed with status code 400"),
     Err("500", NULL, "Server error", "Request failed with status code 500"),
     Err(NULL, NULL, NULL, "Network Error"),
     Err(NULL, NULL, NULL, NULL)}

\* the page is behind PrivateRoute: it mounts for a logged-in user
BookingsInit ==
    /\ ls \in Tokens
    /\ token = ls
    /\ user = UserOf(ls)
    /\ loading = FALSE
    /\ route = "/bookings"
    /\ loadReqs = <<>>
    /\ logins = <<>>
    /\ lpLoading = FALSE
    /\ lpError = ""
    /\ loginCalled = FALSE
    /\ RegIdle
    /\ srv \in BookingLists
    /\ bookings = <<>>
    /\ bLoading = TRUE
    /\ bError = NULL
    /\ cancellingId = NoId
    /\ fetches = <<[auth |-> AuthHeader(ls)]>>
    /\ deletes = <<>>
    /\ ResIdle
    /\ PicIdle
    /\ FormIdle
    /\ lastEvent = Event("mountBookings", NULL, FALSE)

\* which of the page's four views is rendered
BookingsView ==
    IF bLoading THEN "loading"
    ELSE IF bError # NULL THEN "error"
    ELSE IF Len(bookings) = 0 THEN "empty"
    ELSE "table"

\* the disabled attribute of a row's Delete button
DeleteDisabled_IgnoresStatus(b, cid) == cid = b.id
DeleteDisabled(b, cid) == cid = b.id \/ b.status = "cancelled"

\* a response interceptor is not installed: a rejected request reaches the
\* caller's catch block and the stored token is what it was
StoredAfterError(stored, err) == stored

\* fetchBookings: the GET succeeded
FetchOk(i) ==
    /\ i \in DOMAIN fetches
    /\ fetches[i].auth # NULL
    /\ bookings' = srv
    /\ bLoading' = FALSE
    /\ fetches' = RemoveAt(fetches, i)
    /\ lastEvent' = Event("fetchOk", fetches[i], FALSE)
    /\ UNCHANGED <<bError, cancellingId, deletes, srv>>
    /\ UNCHANGED <<authVars, resVars, picVars, formVars, regVars>>

FetchErrorText(err) ==
    IF err.message # NULL THEN err.message ELSE "Failed to fetch bookings"

\* fetchBookings: the GET failed
FetchFail(i, err) ==
    /\ i \in DOMAIN fetches
    /\ bError' = FetchErrorText(err)
    /\ bLoading' = FALSE
    /\ fetches' = RemoveAt(fetches, i)
    /\ ls' = StoredAfterError(ls, err)
    /\ lastEvent' = Event("fetchFail", [req |-> fetches[i], err |-> err], FALSE)
    /\ UNCHANGED <<bookings, cancellingId, deletes, srv>>
    /\ UNCHANGED <<user, token, loading, route, loadReqs, logins, lpLoading,
                   lpError, loginCalled>>
    /\ UNCHANGED <<resVars, picVars, formVars, regVars>>

\* the Retry button of the error view: fetchBookings again
Retry ==
    /\ BookingsView = "error"
    /\ bLoading' = TRUE
    /\ bError' = NULL
    /\ fetches' = Append(fetches, [auth |-> AuthHeader(ls)])
    /\ lastEvent' = Event("retry", NULL, FALSE)
    /\ UNCHANGED <<bookings, cancellingId, deletes, srv>>
    /\ UNCHANGED <<authVars, resVars, picVars, formVars, regVars>>

DeleteReq(id, snap, auth) == [id |-> id, snap |-> snap, auth |-> auth]

\* if (!window.confirm(...)) return: the handler goes on iff the user confirmed
Proceeds_Always(confirmed) == TRUE
Proceeds(confirmed) == confirmed

\* handleCancelBooking up to the await: window.confirm, then the DELETE.
\* The handler closes over the bookings of the render it was created in.
ClickDelete(k, confirmed) ==
    /\ BookingsView = "table"
    /\ k \in DOMAIN bookings
    /\ ~DeleteDisabled(bookings[k], cancellingId)
    /\ IF Proceeds(confirmed)
       THEN /\ Len(deletes) < MaxDeletes
            /\ cancellingId' = bookings[k].id
            /\ deletes' = Append(deletes,
                                 DeleteReq(bookings[k].id, bookings, AuthHeader(ls)))
       ELSE UNCHANGED <<cancellingId, deletes>>
    /\ lastEvent' = Event(IF confirmed THEN "clickDelete" ELSE "declineDelete",
                          bookings[k], FALSE)
    /\ UNCHANGED <<bookings, bLoading, bError, fetches, srv>>
    /\ UNCHANGED <<authVars, resVars, picVars, formVars, regVars>>

Without(list, id) == SelectSeq(list, LAMBDA b : b.id # id)
Ids(list) == {list[k].id : k \in DOMAIN list}

\* handleCancelBooking: the DELETE succeeded
DeleteOk(j) ==
    /\ j \in DOMAIN deletes
    /\ deletes[j].auth # NULL
    /\ deletes[j].id \in Ids(srv)
    /\ srv' = Without(srv, deletes[j].id)
    /\ bookings' = Without(deletes[j].snap, deletes[j].id)
    /\ cancellingId' = NoId
    /\ deletes' = RemoveAt(deletes, j)
    /\ lastEvent' = Event("deleteOk",
                          [id |-> deletes[j].id,
                           alert |-> "Booking cancelled successfully!"], FALSE)
    /\ UNCHANGED <<bLoading, bError, fetches>>
    /\ UNCHANGED <<authVars, resVars, picVars, formVars, regVars>>

\* the text handleCancelBooking's catch block alerts
ErrorMessage_No404(err) ==
    IF err.status = "403"
    THEN "You do not have permission to cancel this booking. Please contact an administrator."
    ELSE IF err.detail # NULL THEN "Failed to cancel booking. " \o err.detail
    ELSE IF err.message # NULL THEN "Failed to cancel booking. " \o err.message
    ELSE IF err.errmsg # NULL THEN "Failed to cancel booking. " \o err.errmsg
    ELSE "Failed to cancel booking. " \o "Please try again or contact support."
ErrorMessage(err) ==
    IF err.status = "403"
    THEN "You do not have permission to cancel this booking. Please contact an administrator."
    ELSE IF err.status = "404"
    THEN "Booking not found. It may have already been cancelled."
    ELSE IF err.detail # NULL THEN "Failed to cancel booking. " \o err.detail
    ELSE IF err.message # NULL THEN "Failed to cancel booking. " \o err.message
    ELSE IF err.errmsg # NULL THEN "Failed to cancel booking. " \o err.errmsg
    ELSE "Failed to cancel booking. " \o "Please try again or contact support."

\* handleCancelBooking: the DELETE failed
DeleteFail(j, err) ==
    /\ j \in DOMAIN deletes
    /\ cancellingId' = NoId
    /\ deletes' = RemoveAt(deletes, j)
    /\ ls' = StoredAfterError(ls, err)
    /\ lastEvent' = Event("deleteFail",
                          [id |-> deletes[j].id, err |-> err,
                           alert |-> ErrorMessage(err)], FALSE)
    /\ UNCHANGED <<bookings, bLoading, bError, fetches, srv>>
    /\ UNCHANGED <<user, token, loading, route, loadReqs, logins, lpLoading,
                   lpError, loginCalled>>
    /\ UNCHANGED <<resVars, picVars, formVars, regVars>>

BookingsNext ==
    \/ \E i \in DOMAIN fetches : FetchOk(i)
    \/ \E i \in DOMAIN fetches, err \in Errors : FetchFail(i, err)
    \/ Retry
    \/ \E k \in DOMAIN bookings, confirmed \in BOOLEAN : ClickDelete(k, confirmed)
    \/ \E j \in DOMAIN deletes : DeleteOk(j)
    \/ \E j \in DOMAIN deletes, err \in Errors : DeleteFail(j, err)

BookingsSpec == BookingsInit /\ [][BookingsNext]_vars
\* ------------------------------------------------------------ resource page
\* the lists GET /resources/ can answer with when the page mounts
ResourceLists ==
    {[i \in 1..n |-> Resource(i, "Room", "", 1, TRUE)] : n \in 0..MaxResources}

\* what the user can put into the modal's fields
FieldValues(field) ==
    CASE field = "name" -> {"  ", "Lab"}
      [] field = "capacity" -> {0, 1}
\* the fields the user edits here are the two validateForm looks at; the
\* description and the availability are sent and merged as they stand
Fields == {"name", "capacity"}

\* String.prototype.trim on the names that can be typed
Trim(str) == IF str = "  " THEN "" ELSE str

\* the page is behind PrivateRoute: it mounts for a logged-in user. With
\* stale, the provider still waits for the answer to the load-user request of
\* the token that was stored before this login (Spec reaches such a state:
\* mount with a stored token, log in as another user before the GET is
\* answered).
ResourcesMount(stale) ==
    /\ ls \in Tokens
    /\ token = ls
    /\ user = UserOf(ls)
    /\ loading = FALSE
    /\ route = "/resources"
    /\ loadReqs = IF stale
                  THEN <<LoadReq(AuthHeader(CHOOSE t \in Tokens : t # ls), TRUE)>>
                  ELSE <<>>
    /\ logins = <<>>
    /\ lpLoading = FALSE
    /\ lpError = ""
    /\ loginCalled = (loadReqs # <<>>)
    /\ RegIdle
    /\ PageIdle
    /\ resources = <<>>
    /\ rLoading = TRUE
    /\ rError = NULL
    /\ showModal = FALSE
    /\ editingResource = NoResource
    /\ formData = EmptyForm
    /\ formErrors = {}
    /\ submitting = FALSE
    /\ deletingId = NoId
    /\ rFetches = <<[auth |-> AuthHeader(ls)]>>
    /\ rSaves = <<>>
    /\ rDeletes = <<>>
    /\ rSrv \in ResourceLists
    /\ rNextId = Len(rSrv) + 1
    /\ rWrites = 0
    /\ PicIdle
    /\ FormIdle
    /\ lastEvent = Event("mountResources", NULL, FALSE)

ResourcesInit == ResourcesMount(FALSE)

\* which of the page's four views is rendered
ResourcesView ==
    IF rLoading THEN "loading"
    ELSE IF rError # NULL THEN "error"
    ELSE IF Len(resources) = 0 THEN "empty"
    ELSE "list"

\* {user?.is_staff && ...}: the Add, Edit and Delete controls
AdminControls(u) == u # NULL /\ IsStaff(u)

\* {showModal && ...} in the empty view and in the list view
ModalShown == showModal /\ ResourcesView \in {"empty", "list"}

\* fetchResources: the GET succeeded
RFetchOk(i) ==
    /\ i \in DOMAIN rFetches
    /\ rFetches[i].auth # NULL
    /\ resources' = rSrv
    /\ rLoading' = FALSE
    /\ rFetches' = RemoveAt(rFetches, i)
    /\ lastEvent' = Event("rFetchOk", rFetches[i], FALSE)
    /\ UNCHANGED <<rError, showModal, editingResource, formData, formErrors,
                   submitting, deletingId, rSaves, rDeletes, rSrv, rNextId, rWrites>>
    /\ UNCHANGED <<authVars, pageVars, picVars, formVars, regVars>>

RFetchErrorText(err) ==
    IF err.message # NULL THEN err.message ELSE "Failed to fetch resources"

\* fetchResources: the GET failed
RFetchFail_AutoRetry(i, err) ==
    /\ i \in DOMAIN rFetches
    /\ rError' = RFetchErrorText(err)
    /\ rLoading' = FALSE
    /\ rFetches' = Append(RemoveAt(rFetches, i), [auth |-> AuthHeader(ls)])
    /\ lastEvent' = Event("rFetchFail", [req |-> rFetches[i], err |-> err], FALSE)
    /\ UNCHANGED <<resources, showModal, editingResource, formData, formErrors,
                   submitting, deletingId, rSaves, rDeletes, rSrv, rNextId, rWrites>>
    /\ UNCHANGED <<authVars, pageVars, picVars, formVars, regVars>>
RFetchFail(i, err) ==
    /\ i \in DOMAIN rFetches
    /\ rError' = RFetchErrorText(err)
    /\ rLoading' = FALSE
    /\ rFetches' = RemoveAt(rFetches, i)
    /\ lastEvent' = Event("rFetchFail", [req |-> rFetches[i], err |-> err], FALSE)
    /\ UNCHANGED <<resources, showModal, editingResource, formData, formErrors,
                   submitting, deletingId, rSaves, rDeletes, rSrv, rNextId, rWrites>>
    /\ UNCHANGED <<authVars, pageVars, picVars, formVars, regVars>>

\* the Retry button of the error view: fetchResources again
RRetry ==
    /\ ResourcesView = "error"
    /\ rLoading' = TRUE
    /\ rError' = NULL
    /\ rFetches' = Append(rFetches, [auth |-> AuthHeader(ls)])
    /\ lastEvent' = Event("rRetry", NULL, FALSE)
    /\ UNCHANGED <<resources, showModal, editingResource, formData, formErrors,
                   submitting, deletingId, rSaves, rDeletes, rSrv, rNextId, rWrites>>
    /\ UNCHANGED <<authVars, pageVars, picVars, formVars, regVars>>

openAddModal ==
    /\ ResourcesView \in {"empty", "list"}
    /\ AdminControls(user)
    /\ editingResource' = NoResource
    /\ formData' = EmptyForm
    /\ formErrors' = {}
    /\ showModal' = TRUE
    /\ lastEvent' = Event("openAddModal", NULL, FALSE)
    /\ UNCHANGED <<resources, rLoading, rError, submitting, deletingId, rFetches,
                   rSaves, rDeletes, rSrv, rNextId, rWrites>>
    /\ UNCHANGED <<authVars, pageVars, picVars, formVars, regVars>>

openEditModal(k) ==
    /\ ResourcesView = "list"
    /\ k \in DOMAIN resources
    /\ AdminControls(user)
    /\ editingResource' = resources[k]
    /\ formData' = [name |-> resources[k].name,
                    description |-> resources[k].description,
                    capacity |-> resources[k].capacity,
                    is_available |-> resources[k].is_available]
    /\ formErrors' = {}
    /\ showModal' = TRUE
    /\ lastEvent' = Event("openEditModal", resources[k].id, FALSE)
    /\ UNCHANGED <<resources, rLoading, rError, submitting, deletingId, rFetches,
                   rSaves, rDeletes, rSrv, rNextId, rWrites>>
    /\ UNCHANGED <<authVars, pageVars, picVars, formVars, regVars>>

\* closeModal, as the handler's own last step and as the overlay, the close
\* button and the Cancel button call it
ClosedModal ==
    /\ showModal' = FALSE
    /\ editingResource' = NoResource
    /\ formData' = EmptyForm
    /\ formErrors' = {}

closeModal ==
    /\ ModalShown
    /\ ClosedModal
    /\ lastEvent' = Event("closeModal", NULL, FALSE)
    /\ UNCHANGED <<resources, rLoading, rError, submitting, deletingId, rFetches,
                   rSaves, rDeletes, rSrv, rNextId, rWrites>>
    /\ UNCHANGED <<authVars, pageVars, picVars, formVars, regVars>>

\* the modal's inputs are disabled while submitting
handleInputChange(field, value) ==
    /\ ModalShown
    /\ ~submitting
    /\ value # formData[field]
    /\ formData' = [formData EXCEPT ![field] = value]
    /\ formErrors' = formErrors \ {field}
    /\ lastEvent' = Event("inputChange", field, FALSE)
    /\ UNCHANGED <<resources, rLoading, rError, showModal, editingResource,
                   submitting, deletingId, rFetches, rSaves, rDeletes, rSrv, rNextId, rWrites>>
    /\ UNCHANGED <<authVars, pageVars, picVars, formVars, regVars>>

\* validateForm: the fields in error
validateForm_NoTrim(data) ==
    (IF data.name = "" THEN {"name"} ELSE {})
        \cup (IF data.capacity < 1 THEN {"capacity"} ELSE {})
validateForm(data) ==
    (IF Trim(data.name) = "" THEN {"name"} ELSE {})
        \cup (IF data.capacity < 1 THEN {"capacity"} ELSE {})

SaveReq(kind, editing, data, auth) ==
    [kind |-> kind, editing |-> editing, data |-> data, auth |-> auth]

\* handleSubmit up to the await: validation, then the PUT or the POST
handleSubmit ==
    /\ ModalShown
    /\ ~submitting
    /\ formErrors' = validateForm(formData)
    /\ IF validateForm(formData) # {}
       THEN /\ UNCHANGED <<submitting, rSaves, rWrites>>
            /\ lastEvent' = Event("resourceInvalid", validateForm(formData), FALSE)
       ELSE /\ rWrites < MaxWrites
            /\ rWrites' = rWrites + 1
            /\ submitting' = TRUE
            /\ rSaves' = Append(rSaves,
                   SaveReq(IF editingResource # NoResource THEN "put" ELSE "post",
                           editingResource, formData, AuthHeader(ls)))
            /\ lastEvent' = Event("resourceSubmit", formData, FALSE)
    /\ UNCHANGED <<resources, rLoading, rError, showModal, editingResource,
                   formData, deletingId, rFetches, rDeletes, rSrv, rNextId>>
    /\ UNCHANGED <<authVars, pageVars, picVars, formVars, regVars>>

\* prev.map(r => r.id === editingResource.id ? { ...r, ...formData } : r)
Merged(r, data) ==
    [r EXCEPT !.name = data.name, !.description = data.description,
              !.capacity = data.capacity, !.is_available = data.is_available]
Updated(list, id, data) ==
    [k \in DOMAIN list |-> IF list[k].id = id THEN Merged(list[k], data) ELSE list[k]]

\* handleSubmit: the PUT succeeded
RUpdateOk(i) ==
    /\ i \in DOMAIN rSaves
    /\ rSaves[i].kind = "put"
    /\ rSaves[i].auth # NULL
    /\ rSaves[i].editing.id \in Ids(rSrv)
    /\ rSrv' = Updated(rSrv, rSaves[i].editing.id, rSaves[i].data)
    /\ resources' = Updated(resources, rSaves[i].editing.id, rSaves[i].data)
    /\ ClosedModal
    /\ submitting' = FALSE
    /\ rSaves' = RemoveAt(rSaves, i)
    /\ lastEvent' = Event("resourceSaved",
                          [req |-> rSaves[i], alert |-> "Resource updated successfully!"],
                          FALSE)
    /\ UNCHANGED <<rLoading, rError, deletingId, rFetches, rDeletes, rNextId, rWrites>>
    /\ UNCHANGED <<authVars, pageVars, picVars, formVars, regVars>>

\* handleSubmit: the POST succeeded; response.data is the created resource
RCreateOk(i) ==
    /\ i \in DOMAIN rSaves
    /\ rSaves[i].kind = "post"
    /\ rSaves[i].auth # NULL
    /\ LET d == rSaves[i].data
           created == Resource(rNextId, d.name, d.description, d.capacity,
                               d.is_available) IN
        /\ rSrv' = Append(rSrv, created)
        /\ resources' = Append(resources, created)
    /\ rNextId' = rNextId + 1
    /\ ClosedModal
    /\ submitting' = FALSE
    /\ rSaves' = RemoveAt(rSaves, i)
    /\ lastEvent' = Event("resourceSaved",
                          [req |-> rSaves[i], alert |-> "Resource created successfully!"],
                          FALSE)
    /\ UNCHANGED <<rLoading, rError, deletingId, rFetches, rDeletes, rWrites>>
    /\ UNCHANGED <<authVars, pageVars, picVars, formVars, regVars>>

\* rejections of a write: one with a detail, one with a message, one bare
ResourceErrors == {e \in Errors : e.status \in {"404", "500"} \/ e.errmsg = NULL}

\* the text the catch blocks of handleSubmit and handleDelete alert
RErrorText(err, fallback) ==
    IF err.detail # NULL THEN err.detail
    ELSE IF err.message # NULL THEN err.message
    ELSE fallback

\* handleSubmit: the request failed
RSaveFail(i, err) ==
    /\ i \in DOMAIN rSaves
    /\ submitting' = FALSE
    /\ rSaves' = RemoveAt(rSaves, i)
    /\ lastEvent' = Event("resourceSaveFail",
                          [req |-> rSaves[i],
                           alert |-> RErrorText(err, "Failed to save resource. Please try again.")],
                          FALSE)
    /\ UNCHANGED <<resources, rLoading, rError, showModal, editingResource,
                   formData, formErrors, deletingId, rFetches, rDeletes, rSrv, rNextId, rWrites>>
    /\ UNCHANGED <<authVars, pageVars, picVars, formVars, regVars>>

\* the disabled attribute of a card's Delete button
RDeleteDisabled(r, did) == did = r.id

\* handleDelete up to the await: window.confirm, then the DELETE
handleDelete(k, confirmed) ==
    /\ ResourcesView = "list"
    /\ k \in DOMAIN resources
    /\ AdminControls(user)
    /\ ~RDeleteDisabled(resources[k], deletingId)
    /\ IF Proceeds(confirmed)
       THEN /\ Len(rDeletes) < MaxResourceDeletes
            /\ deletingId' = resources[k].id
            /\ rDeletes' = Append(rDeletes, [id |-> resources[k].id,
                                             auth |-> AuthHeader(ls)])
       ELSE UNCHANGED <<deletingId, rDeletes>>
    /\ lastEvent' = Event(IF confirmed THEN "resourceDelete"
                                       ELSE "declineResourceDelete",
                          resources[k].id, FALSE)
    /\ UNCHANGED <<resources, rLoading, rError, showModal, editingResource,
                   formData, formErrors, submitting, rFetches, rSaves, rSrv, rNextId, rWrites>>
    /\ UNCHANGED <<authVars, pageVars, picVars, formVars, regVars>>

\* handleDelete: the DELETE succeeded
RDeleteOk(j) ==
    /\ j \in DOMAIN rDeletes
    /\ rDeletes[j].auth # NULL
    /\ rDeletes[j].id \in Ids(rSrv)
    /\ rSrv' = Without(rSrv, rDeletes[j].id)
    /\ resources' = Without(resources, rDeletes[j].id)
    /\ deletingId' = NoId
    /\ rDeletes' = RemoveAt(rDeletes, j)
    /\ lastEvent' = Event("resourceDeleted",
                          [id |-> rDeletes[j].id,
                           alert |-> "Resource deleted successfully!"], FALSE)
    /\ UNCHANGED <<rLoading, rError, showModal, editingResource, formData,
                   formErrors, submitting, rFetches, rSaves, rNextId, rWrites>>
    /\ UNCHANGED <<authVars, pageVars, picVars, formVars, regVars>>

\* handleDelete: the DELETE failed
RDeleteFail(j, err) ==
    /\ j \in DOMAIN rDeletes
    /\ deletingId' = NoId
    /\ rDeletes' = RemoveAt(rDeletes, j)
    /\ lastEvent' = Event("resourceDeleteFail",
                          [id |-> rDeletes[j].id,
                           alert |-> RErrorText(err, "Failed to delete resource. Please try again.")],
                          FALSE)
    /\ UNCHANGED <<resources, rLoading, rError, showModal, editingResource,
                   formData, formErrors, submitting, rFetches, rSaves, rSrv, rNextId, rWrites>>
    /\ UNCHANGED <<authVars, pageVars, picVars, formVars, regVars>>

ResourcesNext ==
    \/ \E i \in DOMAIN rFetches : RFetchOk(i)
    \/ \E i \in DOMAIN rFetches, err \in Errors : RFetchFail(i, err)
    \/ RRetry
    \/ openAddModal
    \/ \E k \in DOMAIN resources : openEditModal(k)
    \/ closeModal
    \/ \E field \in Fields : \E value \in FieldValues(field) :
           handleInputChange(field, value)
    \/ handleSubmit
    \/ \E i \in DOMAIN rSaves : RUpdateOk(i)
    \/ \E i \in DOMAIN rSaves : RCreateOk(i)
    \/ \E i \in DOMAIN rSaves, err \in ResourceErrors : RSaveFail(i, err)
    \/ \E k \in DOMAIN resources, confirmed \in BOOLEAN : handleDelete(k, confirmed)
    \/ \E j \in DOMAIN rDeletes : RDeleteOk(j)
    \/ \E j \in DOMAIN rDeletes, err \in ResourceErrors : RDeleteFail(j, err)

ResourcesSpec == ResourcesInit /\ [][ResourcesNext]_vars

\* the resource page while an earlier load-user request is still answered
StaleUserInit == ResourcesMount(TRUE)
StaleUserNext ==
    \/ ResourcesNext
    \/ \E i \in DOMAIN loadReqs : LoadUserOk(i)
StaleUserSpec == StaleUserInit /\ [][StaleUserNext]_vars

\* ---------------------------------------------------- profile picture upload
\* the size limit of handleFileSelect, in bytes
MaxImageBytes == 5 * 1024 * 1024
File(type, size) == [type |-> type, size |-> size]
\* event.target.files?.[0] undefined
NoFile == File("", 0)
Files == {NoFile} \cup {File(t, n) : t \in {"image/png", "text/plain"},
                                     n \in {MaxImageBytes, MaxImageBytes + 1}}
\* file.type.startsWith('image/')
IsImage(file) == file.type = "image/png"
\* data.secure_url of the Cloudinary answer
UploadedUrl == "pic1"

\* the Nav of a logged-in user on the bookings page (its list fetched and
\* empty), the profile modal closed
PictureInit ==
    /\ ls \in Tokens
    /\ token = ls
    /\ user = UserOf(ls)
    /\ loading = FALSE
    /\ route = "/bookings"
    /\ loadReqs = <<>>
    /\ logins = <<>>
    /\ lpLoading = FALSE
    /\ lpError = ""
    /\ loginCalled = FALSE
    /\ RegIdle
    /\ bookings = <<>>
    /\ bLoading = FALSE
    /\ bError = NULL
    /\ cancellingId = NoId
    /\ fetches = <<>>
    /\ deletes = <<>>
    /\ srv = <<>>
    /\ ResIdle
    /\ FormIdle
    /\ showProfileModal = FALSE
    /\ profilePicture \in {NULL, "pic0"}
    /\ userPicture = profilePicture
    /\ previewUrl = ""
    /\ uploading = FALSE
    /\ picError = ""
    /\ picReqs = <<>>
    /\ lastEvent = Event("mountNav", NULL, FALSE)

\* what unmounting ProfilePictureUpload leaves: no component state, and the
\* handlers still waiting belong to no mounted component
DetachPic(reqs) == [i \in DOMAIN reqs |-> [reqs[i] EXCEPT !.mounted = FALSE]]
PictureUnmounted ==
    /\ showProfileModal' = FALSE
    /\ previewUrl' = ""
    /\ uploading' = FALSE
    /\ picError' = ""

\* Nav: the Profile Picture entry of the dropdown mounts the component. The
\* modal and the page under it share no state; it is opened here over the
\* bookings page at rest.
OpenProfileModal ==
    /\ user # NULL
    /\ HasNav(Shown(route, loading, user))
    /\ route = "/bookings"
    /\ BookingsView = "empty"
    /\ ~showProfileModal
    /\ showProfileModal' = TRUE
    /\ previewUrl' = IF profilePicture = NULL THEN "" ELSE profilePicture
    /\ uploading' = FALSE
    /\ picError' = ""
    /\ lastEvent' = Event("openProfileModal", NULL, FALSE)
    /\ UNCHANGED <<profilePicture, picReqs>>
    /\ UNCHANGED <<userPicture, authVars, pageVars, resVars, formVars, regVars>>

\* onClose
CloseProfileModal ==
    /\ showProfileModal
    /\ PictureUnmounted
    /\ picReqs' = DetachPic(picReqs)
    /\ lastEvent' = Event("closeProfileModal", NULL, FALSE)
    /\ UNCHANGED profilePicture
    /\ UNCHANGED <<userPicture, authVars, pageVars, resVars, formVars, regVars>>

PicReq(kind, stage, auth) ==
    [kind |-> kind, stage |-> stage, auth |-> auth, mounted |-> TRUE]

\* a validation without the size check
FileError_NoSizeLimit(file) ==
    IF ~IsImage(file) THEN "Please select an image file" ELSE ""
\* the error handleFileSelect sets before any upload, "" when the file passes
FileError(file) ==
    IF ~IsImage(file) THEN "Please select an image file"
    ELSE IF file.size > MaxImageBytes THEN "Image must be less than 5MB"
    ELSE ""

\* handleFileSelect up to the first await
handleFileSelect(file) ==
    /\ showProfileModal
    /\ ~uploading
    /\ IF file = NoFile
       THEN UNCHANGED <<picError, uploading, picReqs>>
       ELSE IF FileError(file) # ""
       THEN /\ picError' = FileError(file)
            /\ UNCHANGED <<uploading, picReqs>>
       ELSE /\ Len(picReqs) < MaxInFlight
            /\ picError' = ""
            /\ uploading' = TRUE
            /\ picReqs' = Append(picReqs, PicReq("upload", "cloudinary", NULL))
    /\ lastEvent' = Event("fileSelect", file, FALSE)
    /\ UNCHANGED <<showProfileModal, profilePicture, previewUrl>>
    /\ UNCHANGED <<userPicture, authVars, pageVars, resVars, formVars, regVars>>

\* handleFileSelect: Cloudinary answered ok; api.patch('profile/picture/')
CloudinaryOk(i) ==
    /\ i \in DOMAIN picReqs
    /\ picReqs[i].stage = "cloudinary"
    /\ picReqs' = [picReqs EXCEPT ![i].stage = "backend",
                                  ![i].auth = AuthHeader(ls)]
    /\ lastEvent' = Event("cloudinaryOk", NULL, FALSE)
    /\ UNCHANGED <<showProfileModal, profilePicture, previewUrl, uploading, picError>>
    /\ UNCHANGED <<userPicture, authVars, pageVars, resVars, formVars, regVars>>

\* the catch and finally blocks of both handlers
PictureFailed(i, text) ==
    /\ IF picReqs[i].mounted
       THEN /\ picError' = text
            /\ uploading' = FALSE
       ELSE UNCHANGED <<picError, uploading>>
    /\ picReqs' = RemoveAt(picReqs, i)
    /\ lastEvent' = Event("pictureFail", [req |-> picReqs[i], error |-> text], FALSE)
    /\ UNCHANGED <<showProfileModal, profilePicture, previewUrl>>
    /\ UNCHANGED <<userPicture, authVars, pageVars, resVars, formVars, regVars>>

\* handleFileSelect: fetch rejected, or !response.ok
CloudinaryFail(i, rejected) ==
    /\ i \in DOMAIN picReqs
    /\ picReqs[i].stage = "cloudinary"
    /\ PictureFailed(i, IF rejected THEN "Failed to fetch" ELSE "Upload failed")

\* err.message || fallback
PicErrorText(err, fallback) == IF err.errmsg # NULL THEN err.errmsg ELSE fallback

\* api.patch or api.delete failed
PictureBackendFail(i, err) ==
    /\ i \in DOMAIN picReqs
    /\ picReqs[i].stage = "backend"
    /\ PictureFailed(i, PicErrorText(err, IF picReqs[i].kind = "upload"
                                          THEN "Failed to upload image"
                                          ELSE "Failed to remove image"))

\* what AuthProvider hands to its consumers
ContextValue == {"user", "token", "loading", "login", "register", "logout"}

\* api.patch or api.delete succeeded: setPreviewUrl, then Nav's
\* handleProfilePictureUpdate, which closes the modal and refreshes the
\* context's user if the context has a refreshUser
PictureBackendOk(i) ==
    /\ i \in DOMAIN picReqs
    /\ picReqs[i].stage = "backend"
    /\ picReqs[i].auth # NULL
    /\ profilePicture' = IF picReqs[i].kind = "upload" THEN UploadedUrl ELSE NULL
    /\ userPicture' = IF "refreshUser" \in ContextValue THEN profilePicture'
                       ELSE userPicture
    /\ PictureUnmounted
    /\ picReqs' = DetachPic(RemoveAt(picReqs, i))
    /\ lastEvent' = Event("pictureUpdated", picReqs[i], FALSE)
    /\ UNCHANGED <<authVars, pageVars, resVars, formVars, regVars>>

\* handleRemove up to the await: window.confirm, then the DELETE
handleRemove(confirmed) ==
    /\ showProfileModal
    /\ previewUrl # ""
    /\ ~uploading
    /\ IF Proceeds(confirmed)
       THEN /\ Len(picReqs) < MaxInFlight
            /\ picError' = ""
            /\ uploading' = TRUE
            /\ picReqs' = Append(picReqs, PicReq("remove", "backend", AuthHeader(ls)))
       ELSE UNCHANGED <<picError, uploading, picReqs>>
    /\ lastEvent' = Event(IF confirmed THEN "removePicture" ELSE "declineRemove",
                          NULL, FALSE)
    /\ UNCHANGED <<showProfileModal, profilePicture, previewUrl>>
    /\ UNCHANGED <<userPicture, authVars, pageVars, resVars, formVars, regVars>>

PictureNext ==
    \/ OpenProfileModal
    \/ CloseProfileModal
    \/ \E file \in Files : handleFileSelect(file)
    \/ \E i \in DOMAIN picReqs : CloudinaryOk(i)
    \/ \E i \in DOMAIN picReqs, rejected \in BOOLEAN : CloudinaryFail(i, rejected)
    \/ \E i \in DOMAIN picReqs, err \in Errors : PictureBackendFail(i, err)
    \/ \E i \in DOMAIN picReqs : PictureBackendOk(i)
    \/ \E confirmed \in BOOLEAN : handleRemove(confirmed)

\* -------------------------------------------------------------- booking form
\* the times a date picker can be set to, in ms: the first is in the past
\* once the clock has moved
Times == {StartOfDay, 3000}
NoteValues == {"", "  "}
\* Date.prototype.toISOString and new Date(isoString)
toISOString(t) == [iso |-> t]
ParseDate(str) == str.iso
\* delay of the navigation after a success, in ms
NavDelay == 2000
\* the clock stops here
MaxNow == 4000
\* navigations a form has scheduled and not yet run
MaxTimers == 2

formProps == <<bookingId, resourceId, onSuccess, fSrv>>
formFields == <<selectedResourceId, startTime, endTime, notes, bookingStatus>>
formFlags == <<fLoading, fError, fSuccess, fetchingResources, fetchingBooking>>

isEditMode == bookingId # NoId

FormReq(kind, data, auth) ==
    [kind |-> kind, data |-> data, auth |-> auth, mounted |-> TRUE]
StoredBooking(st) ==
    [resource |-> 1, start_time |-> toISOString(StartOfDay),
     end_time |-> toISOString(3000), notes |-> "", status |-> st]

\* the form as it mounts: in edit mode the effect fetches the booking, in
\* create mode without a resource in the URL it fetches the resources
FormInit ==
    /\ ls \in Tokens
    /\ token = ls
    /\ user = UserOf(ls)
    /\ loading = FALSE
    /\ loadReqs = <<>>
    /\ logins = <<>>
    /\ lpLoading = FALSE
    /\ lpError = ""
    /\ loginCalled = FALSE
    /\ RegIdle
    /\ PageIdle
    /\ ResIdle
    /\ PicIdle
    /\ formMounted = TRUE
    /\ bookingId \in {NoId, 1}
    /\ resourceId \in IF bookingId = NoId THEN {NoId, 1} ELSE {NoId}
    /\ route = IF bookingId = NoId THEN "/bookings/new" ELSE "/bookings/edit"
    /\ onSuccess \in BOOLEAN
    /\ fSrv \in IF bookingId = NoId THEN {NULL}
                ELSE {StoredBooking(st) : st \in {"pending", "confirmed"}}
    /\ fResources = {}
    /\ selectedResourceId = resourceId
    /\ startTime = NoTime
    /\ endTime = NoTime
    /\ notes = ""
    /\ bookingStatus = "pending"
    /\ fLoading = FALSE
    /\ fError = NULL
    /\ fSuccess = FALSE
    /\ fetchingBooking = (bookingId # NoId)
    /\ fetchingResources = (bookingId = NoId /\ resourceId = NoId)
    /\ fReqs = IF bookingId # NoId
               THEN <<FormReq("getBooking", NULL, AuthHeader(ls))>>
               ELSE IF resourceId = NoId
               THEN <<FormReq("getResources", NULL, AuthHeader(ls))>>
               ELSE <<>>
    /\ timers = <<>>
    /\ now = StartOfDay
    /\ lastEvent = Event("mountForm", NULL, FALSE)

\* the form is rendered, not the loading message
FormRendered == formMounted /\ ~fetchingResources /\ ~fetchingBooking
\* disabled={loading} on every field and on both buttons
FormDisabled_Never(ld) == FALSE
FormDisabled(ld) == ld
FormEnabled == FormRendered /\ ~FormDisabled(fLoading)
\* {isEditMode && ...}: the status select; the user's role plays no part
StatusFieldShown_AdminOnly(edit, u) == edit /\ u # NULL /\ IsStaff(u)
StatusFieldShown(edit, u) == edit
\* {!resourceId && !isEditMode && ...}: the resource select
ResourceSelectShown == resourceId = NoId /\ ~isEditMode

otherThanForm == <<authVars, regVars, pageVars, resVars, picVars>>

\* fetchBooking: the GET succeeded
FetchBookingOk(i) ==
    /\ i \in DOMAIN fReqs
    /\ fReqs[i].kind = "getBooking"
    /\ fReqs[i].auth # NULL
    /\ IF fReqs[i].mounted
       THEN /\ selectedResourceId' = fSrv.resource
            /\ startTime' = ParseDate(fSrv.start_time)
            /\ endTime' = ParseDate(fSrv.end_time)
            /\ notes' = fSrv.notes
            /\ bookingStatus' = fSrv.status
            /\ fetchingBooking' = FALSE
       ELSE UNCHANGED <<formFields, fetchingBooking>>
    /\ fReqs' = RemoveAt(fReqs, i)
    /\ lastEvent' = Event("bookingFetched", NULL, FALSE)
    /\ UNCHANGED <<formMounted, formProps, fResources, fLoading, fError, fSuccess,
                   fetchingResources, timers, now>>
    /\ UNCHANGED otherThanForm

\* fetchResources: the GET succeeded; the available resources are offered
FetchResourcesOk(i) ==
    /\ i \in DOMAIN fReqs
    /\ fReqs[i].kind = "getResources"
    /\ fReqs[i].auth # NULL
    /\ IF fReqs[i].mounted
       THEN /\ fResources' = {1, 2}
            /\ fetchingResources' = FALSE
       ELSE UNCHANGED <<fResources, fetchingResources>>
    /\ fReqs' = RemoveAt(fReqs, i)
    /\ lastEvent' = Event("resourcesFetched", NULL, FALSE)
    /\ UNCHANGED <<formMounted, formProps, formFields, fLoading, fError, fSuccess,
                   fetchingBooking, timers, now>>
    /\ UNCHANGED otherThanForm

\* fetchBooking or fetchResources: the GET failed
FormFetchFail(i) ==
    /\ i \in DOMAIN fReqs
    /\ fReqs[i].kind \in {"getBooking", "getResources"}
    /\ IF fReqs[i].mounted
       THEN /\ fError' = IF fReqs[i].kind = "getBooking"
                         THEN "Failed to fetch booking details"
                         ELSE "Failed to fetch resources"
            /\ fetchingBooking' = FALSE
            /\ fetchingResources' = FALSE
       ELSE UNCHANGED <<fError, fetchingBooking, fetchingResources>>
    /\ fReqs' = RemoveAt(fReqs, i)
    /\ lastEvent' = Event("formFetchFail", fReqs[i].kind, FALSE)
    /\ UNCHANGED <<formMounted, formProps, fResources, formFields, fLoading,
                   fSuccess, timers, now>>
    /\ UNCHANGED otherThanForm

FormFields == {"resource", "start", "end", "notes", "status"}
FormValues(field) ==
    CASE field = "resource" -> {NoId, 1, 2}
      [] field \in {"start", "end"} -> Times \cup {NoTime}
      [] field = "notes" -> NoteValues
      [] field = "status" -> Statuses

\* the onChange handlers of the fields
ChangeField(field, value) ==
    /\ FormEnabled
    /\ CASE field = "resource" ->
              /\ ResourceSelectShown
              /\ value \in fResources \cup {NoId}
              /\ value # selectedResourceId
              /\ selectedResourceId' = value
              /\ UNCHANGED <<startTime, endTime, notes, bookingStatus>>
         [] field = "start" ->
              /\ value \in Times \cup {NoTime}
              /\ value # startTime
              /\ startTime' = value
              /\ UNCHANGED <<selectedResourceId, endTime, notes, bookingStatus>>
         [] field = "end" ->
              /\ value \in Times \cup {NoTime}
              /\ value # endTime
              /\ endTime' = value
              /\ UNCHANGED <<selectedResourceId, startTime, notes, bookingStatus>>
         [] field = "notes" ->
              /\ value \in NoteValues
              /\ value # notes
              /\ notes' = value
              /\ UNCHANGED <<selectedResourceId, startTime, endTime, bookingStatus>>
         [] field = "status" ->
              /\ StatusFieldShown(isEditMode, user)
              /\ value \in Statuses
              /\ value # bookingStatus
              /\ bookingStatus' = value
              /\ UNCHANGED <<selectedResourceId, startTime, endTime, notes>>
    /\ lastEvent' = Event("changeField", field, FALSE)
    /\ UNCHANGED <<formMounted, formProps, fResources, formFlags, fReqs, timers, now>>
    /\ UNCHANGED otherThanForm

\* validateForm: the error it sets, NULL when the form is valid
validateBooking_NoResource(sel, st, en, edit, clock) ==
    IF st = NoTime THEN "Please select a start time"
    ELSE IF en = NoTime THEN "Please select an end time"
    ELSE IF st >= en THEN "End time must be after start time"
    ELSE IF ~edit /\ st < clock THEN "Start time cannot be in the past"
    ELSE NULL
validateBooking_PastInEdit(sel, st, en, edit, clock) ==
    IF sel = NoId THEN "Please select a resource"
    ELSE IF st = NoTime THEN "Please select a start time"
    ELSE IF en = NoTime THEN "Please select an end time"
    ELSE IF st >= en THEN "End time must be after start time"
    ELSE IF st < clock THEN "Start time cannot be in the past"
    ELSE NULL
validateBooking(sel, st, en, edit, clock) ==
    IF sel = NoId THEN "Please select a resource"
    ELSE IF st = NoTime THEN "Please select a start time"
    ELSE IF en = NoTime THEN "Please select an end time"
    ELSE IF st >= en THEN "End time must be after start time"
    ELSE IF ~edit /\ st < clock THEN "Start time cannot be in the past"
    ELSE NULL

\* bookingData; its status is there only when editing
BookingData_AlwaysStatus(edit) ==
    [resource |-> selectedResourceId, start_time |-> toISOString(startTime),
     end_time |-> toISOString(endTime), notes |-> Trim(notes),
     status |-> bookingStatus]
BookingData(edit) ==
    [resource |-> selectedResourceId, start_time |-> toISOString(startTime),
     end_time |-> toISOString(endTime), notes |-> Trim(notes),
     status |-> IF edit THEN bookingStatus ELSE NULL]

\* handleSubmit up to the await: validation, then the PUT or the POST
handleSubmitBooking ==
    /\ FormEnabled
    /\ fSuccess' = FALSE
    /\ LET err == validateBooking(selectedResourceId, startTime, endTime,
                                  isEditMode, now) IN
         IF err # NULL
         THEN /\ fError' = err
              /\ UNCHANGED <<fLoading, fReqs>>
              /\ lastEvent' = Event("bookingInvalid", err, FALSE)
         ELSE /\ Len(timers) < MaxTimers
              /\ fError' = NULL
              /\ fLoading' = TRUE
              /\ fReqs' = Append(fReqs,
                                 FormReq(IF isEditMode THEN "put" ELSE "post",
                                         BookingData(isEditMode), AuthHeader(ls)))
              /\ lastEvent' = Event("bookingSubmit", BookingData(isEditMode), FALSE)
    /\ UNCHANGED <<formMounted, formProps, fResources, formFields,
                   fetchingResources, fetchingBooking, timers, now>>
    /\ UNCHANGED otherThanForm

\* setTimeout(..., 2000): the time the callback is due when set at t
TimerDue_Immediate(t) == t
TimerDue(t) == t + NavDelay

\* the fields after a success: a create resets them, an update keeps them
FieldsAfterSave_Kept(kind) == UNCHANGED formFields
FieldsAfterSave(kind) ==
    IF kind = "post"
    THEN /\ selectedResourceId' = IF resourceId = NoId THEN NoId
                                  ELSE selectedResourceId
         /\ startTime' = NoTime
         /\ endTime' = NoTime
         /\ notes' = ""
         /\ UNCHANGED bookingStatus
    ELSE UNCHANGED formFields

\* handleSubmit: the PUT or the POST succeeded
BookingSaveOk(i) ==
    /\ i \in DOMAIN fReqs
    /\ fReqs[i].kind \in {"post", "put"}
    /\ fReqs[i].auth # NULL
    /\ IF fReqs[i].mounted
       THEN /\ fSuccess' = TRUE
            /\ FieldsAfterSave(fReqs[i].kind)
            /\ fLoading' = FALSE
       ELSE UNCHANGED <<fSuccess, formFields, fLoading>>
    /\ timers' = IF onSuccess THEN timers ELSE Append(timers, [set |-> now])
    /\ fReqs' = RemoveAt(fReqs, i)
    /\ lastEvent' = Event("bookingSaved",
                          [req |-> fReqs[i], onSuccessCalled |-> onSuccess], FALSE)
    /\ UNCHANGED <<formMounted, formProps, fResources, fError, fetchingResources,
                   fetchingBooking, now>>
    /\ UNCHANGED otherThanForm

\* the message the catch block of handleSubmit sets
FormErrorText(err, edit) ==
    IF err.detail # NULL THEN err.detail
    ELSE IF err.message # NULL THEN err.message
    ELSE IF edit THEN "Failed to update booking. Please try again."
    ELSE "Failed to create booking. Please try again."

\* handleSubmit: the request failed
BookingSaveFail(i, err) ==
    /\ i \in DOMAIN fReqs
    /\ fReqs[i].kind \in {"post", "put"}
    /\ IF fReqs[i].mounted
       THEN /\ fError' = FormErrorText(err, fReqs[i].kind = "put")
            /\ fLoading' = FALSE
       ELSE UNCHANGED <<fError, fLoading>>
    /\ fReqs' = RemoveAt(fReqs, i)
    /\ lastEvent' = Event("bookingSaveFail", [req |-> fReqs[i]], FALSE)
    /\ UNCHANGED <<formMounted, formProps, fResources, formFields, fSuccess,
                   fetchingResources, fetchingBooking, timers, now>>
    /\ UNCHANGED otherThanForm

\* the router shows another page: the form unmounts, and the page arrived
\* at sends its list GET as it mounts
LeaveForm(path) ==
    /\ route' = path
    /\ formMounted' = FALSE
    /\ fReqs' = DetachPic(fReqs)
    /\ fetches' = IF path = "/bookings" /\ route # path
                  THEN <<[auth |-> AuthHeader(ls)]>> ELSE fetches
    /\ rFetches' = IF path = "/resources" /\ route # path
                   THEN <<[auth |-> AuthHeader(ls)]>> ELSE rFetches
    /\ UNCHANGED <<ls, user, token, loading, loadReqs, logins, lpLoading, lpError,
                   loginCalled>>
    /\ UNCHANGED <<bookings, bLoading, bError, cancellingId, deletes, srv>>
    /\ UNCHANGED <<resources, rLoading, rError, showModal, editingResource,
                   formData, formErrors, submitting, deletingId, rSaves, rDeletes,
                   rSrv, rNextId, rWrites>>
    /\ UNCHANGED <<picVars, regVars>>

\* the Cancel button: navigate(-1), back to the list the form was opened from
CancelForm ==
    /\ FormEnabled
    /\ LeaveForm(IF isEditMode THEN "/bookings" ELSE "/resources")
    /\ lastEvent' = Event("cancelForm", NULL, FALSE)
    /\ UNCHANGED <<formProps, fResources, formFields, formFlags, timers, now>>

\* time passes
Tick ==
    /\ now + 1000 <= MaxNow
    /\ now' = now + 1000
    /\ lastEvent' = Event("tick", NULL, FALSE)
    /\ UNCHANGED <<formMounted, formProps, fResources, formFields, formFlags,
                   fReqs, timers>>
    /\ UNCHANGED otherThanForm

\* a setTimeout callback runs: navigate('/bookings')
TimerFires(i) ==
    /\ i \in DOMAIN timers
    /\ now >= TimerDue(timers[i].set)
    /\ timers' = RemoveAt(timers, i)
    /\ LeaveForm("/bookings")
    /\ lastEvent' = Event("navigate", [to |-> "/bookings", set |-> timers[i].set], FALSE)
    /\ UNCHANGED <<formProps, fResources, formFields, formFlags, now>>

FormNext ==
    \/ \E i \in DOMAIN fReqs : FetchBookingOk(i)
    \/ \E i \in DOMAIN fReqs : FetchResourcesOk(i)
    \/ \E i \in DOMAIN fReqs : FormFetchFail(i)
    \/ \E field \in FormFields : \E value \in FormValues(field) :
           ChangeField(field, value)
    \/ handleSubmitBooking
    \/ \E i \in DOMAIN fReqs : BookingSaveOk(i)
    \/ \E i \in DOMAIN fReqs, err \in Errors : BookingSaveFail(i, err)
    \/ CancelForm
    \/ Tick
    \/ \E i \in DOMAIN timers : TimerFires(i)

FormSpec == FormInit /\ [][FormNext]_vars

\* ------------------------------------------- one page of the three is mounted
PagesInit == BookingsInit \/ ResourcesInit \/ PictureInit
PagesNext == BookingsNext \/ ResourcesNext \/ PictureNext
PagesSpec == PagesInit /\ [][PagesNext]_vars

\* ================================================================== claims

\* C1: at each of the four protected routes the page content is shown only
\* when loading is false and user is set; while loading is true the route
\* shows neither its content nor the redirect (whatever user is); and a
\* protected route with loading false and no user does not stay: it has been
\* replaced by /login.
C1_ClaimedRoutes == {"/bookings", "/bookings/new", "/bookings/edit", "/resources"}
C1_ProtectedRoutes ==
    /\ \A r \in C1_ClaimedRoutes :
        /\ (route = r /\ Shown(r, loading, user) = PageOf(r)) =>
               (~loading /\ user # NULL)
        /\ \A u \in Users \cup {NULL} :
               Shown(r, TRUE, u) \notin {PageOf(r), "Navigate"}
        /\ Redirects(r, FALSE, NULL)
        /\ route = r => (loading \/ user # NULL)
    /\ lastEvent.redirect => (route = "/login" /\ ~loading /\ user = NULL)
C1_Witness ==
    /\ lastEvent.redirect
    /\ lastEvent.type = "goto"
    /\ lastEvent.arg \in C1_ClaimedRoutes
    /\ route = "/login"

\* C2: login() first sends the POST and writes nothing; a failed POST writes
\* nothing; a successful POST stores the returned token and only then sends
\* GET auth/users/me/, whose header is that token; login resolves true in
\* the step that sets user from that GET's response.
C2_LoginOrder ==
    [][/\ lastEvent'.type = "submitLogin" =>
            /\ ls' = ls /\ token' = token /\ user' = user
            /\ Len(logins') = Len(logins) + 1
            /\ logins'[Len(logins')].phase = "post"
       /\ lastEvent'.type = "loginPostFail" =>
            /\ ls' = ls /\ token' = token /\ user' = user
            /\ lastEvent'.arg.phase = "post"
       /\ lastEvent'.type = "loginPostOk" =>
            /\ ls' = lastEvent'.arg
            /\ \E i \in DOMAIN logins :
                 /\ logins[i].phase = "post"
                 /\ logins'[i].phase = "get"
                 /\ logins'[i].auth = TokenOf(logins[i].cred)
                 /\ logins'[i].auth = ls'
       /\ lastEvent'.type = "loginGetOk" =>
            /\ lastEvent'.arg.phase = "get"
            /\ lastEvent'.arg.auth = lastEvent'.arg.newToken
            /\ user' = UserOf(lastEvent'.arg.newToken)
      ]_vars
C2_Witness ==
    /\ lastEvent.type = "loginGetOk"
    /\ user = UserOf(lastEvent.arg.newToken)

\* C3: the step in which the user logs out leaves no token in localStorage,
\* token null and user null, and no protected page displayed: a logout on a
\* protected route ends at /login.
C3_Logout ==
    [][lastEvent'.type = "logout" =>
         /\ ls' = NULL
         /\ token' = NULL
         /\ user' = NULL
         /\ Shown(route', loading', user') \notin
                {PageOf(r) : r \in C1_ClaimedRoutes}
         /\ route \in C1_ClaimedRoutes => (route' = "/login" /\ lastEvent'.redirect)
      ]_vars
C3_Witness ==
    /\ lastEvent.type = "logout"
    /\ lastEvent.arg \in C1_ClaimedRoutes
    /\ lastEvent.redirect
    /\ route = "/login"
    /\ ls = NULL

\* C4: when the app mounted with a stored token, the accepted answer to the
\* mount's GET auth/users/me/ sets user to the returned account and loading to
\* false; and as long as login has not been called and that GET is unanswered,
\* loading is true and no navigation has been redirected to /login.
C4_InitialPending == \E i \in DOMAIN loadReqs : loadReqs[i].initial
C4_PersistentLogin ==
    [][/\ (lastEvent'.type = "loadUserOk" /\ lastEvent'.arg.initial) =>
            (~loading' /\ user' = UserOf(lastEvent'.arg.auth))
       /\ (C4_InitialPending' /\ ~loginCalled') =>
            (loading' /\ ~lastEvent'.redirect /\ user' = NULL)
      ]_vars
C4_Witness ==
    /\ lastEvent.type = "loadUserOk"
    /\ lastEvent.arg.initial
    /\ ~loginCalled
    /\ route \in C1_ClaimedRoutes
    /\ Shown(route, loading, user) = PageOf(route)
    /\ user = UserOf(ls)

\* C5: a step that writes the localStorage token key (login storing the
\* token, logout or loadUser removing it) is never taken while another login
\* call or load-user request is in flight.
C5_SingleWriter ==
    [][/\ lastEvent'.type \in {"loginPostOk", "loadUserFail"} => InFlight = 1
       /\ lastEvent'.type = "logout" => InFlight = 0
      ]_vars

\* C6: a 401 answer to a request that was sent with a stored token leaves no
\* token in localStorage.
C6_RemovedOn401 ==
    [][/\ (lastEvent'.type = "fetchFail" /\ lastEvent'.arg.err.status = "401"
            /\ lastEvent'.arg.req.auth # NULL) => ls' = NULL
       /\ (lastEvent'.type = "deleteFail" /\ lastEvent'.arg.err.status = "401") =>
            ls' = NULL
      ]_vars

\* C7: once the list is loaded, the displayed bookings are exactly those whose
\* DELETE has not succeeded (the backend's list): a deleted booking is absent
\* and stays absent, every other booking is displayed.
C7_IndependentDeletes ==
    (~bLoading /\ bError = NULL) => Ids(bookings) = Ids(srv)

\* C8: a displayed booking with a DELETE in flight has its delete button
\* disabled, and no booking has two DELETEs in flight.
C8_NoSecondDelete ==
    /\ \A j \in DOMAIN deletes : \A k \in DOMAIN bookings :
           bookings[k].id = deletes[j].id =>
               DeleteDisabled(bookings[k], cancellingId)
    /\ \A i, j \in DOMAIN deletes : deletes[i].id = deletes[j].id => i = j

\* C9: every displayed booking with status cancelled has its delete button
\* disabled, and a DELETE is only ever issued for a booking that is
\* displayed with another status.
C9_CancelledNotDeletable ==
    [][/\ \A k \in DOMAIN bookings' :
            bookings'[k].status = "cancelled" =>
                DeleteDisabled(bookings'[k], cancellingId')
       /\ Len(deletes') > Len(deletes) =>
            \A k \in DOMAIN bookings :
                bookings[k].id = deletes'[Len(deletes')].id =>
                    bookings[k].status # "cancelled"
      ]_vars
C9_Witness ==
    /\ lastEvent.type = "clickDelete"
    /\ BookingsView = "table"
    /\ \E k \in DOMAIN bookings : bookings[k].status = "cancelled"

\* C10: a failed DELETE leaves the displayed list unchanged, alerts the 403
\* text on 403, the 404 text on 404, and otherwise "Failed to cancel
\* booking. " followed by the backend's detail, else its message, else a
\* fallback text; and the booking's delete button is enabled again.
C10_Prefix == "Failed to cancel booking. "
C10_FailedDelete ==
    [][lastEvent'.type = "deleteFail" =>
         LET e == lastEvent'.arg.err
             id == lastEvent'.arg.id
             alerted == lastEvent'.arg.alert IN
         /\ bookings' = bookings
         /\ e.status = "403" => alerted =
              "You do not have permission to cancel this booking. Please contact an administrator."
         /\ e.status = "404" => alerted =
              "Booking not found. It may have already been cancelled."
         /\ e.status \notin {"403", "404"} =>
              IF e.detail # NULL THEN alerted = C10_Prefix \o e.detail
              ELSE IF e.message # NULL THEN alerted = C10_Prefix \o e.message
              ELSE alerted \in {C10_Prefix \o e.errmsg,
                                 C10_Prefix \o "Please try again or contact support."}
         /\ \A k \in DOMAIN bookings' :
              bookings'[k].id = id => ~DeleteDisabled(bookings'[k], cancellingId')
      ]_vars
C10_Witness ==
    /\ lastEvent.type = "deleteFail"
    /\ BookingsView = "table"
    /\ \E k \in DOMAIN bookings :
         /\ bookings[k].id = lastEvent.arg.id
         /\ ~DeleteDisabled(bookings[k], cancellingId)
\* C11: when the user declines the confirmation dialog of a destructive
\* action (deleting a booking, deleting a resource, removing the profile
\* picture), no request is sent and no state of the application changes.
C11_Declines == {"declineDelete", "declineResourceDelete", "declineRemove"}
C11_DeclineChangesNothing ==
    [][lastEvent'.type \in C11_Declines =>
         UNCHANGED <<authVars, pageVars, resVars, picVars, formVars, regVars>>]_vars
C11_Witness ==
    /\ lastEvent.type = "declineRemove"
    /\ showProfileModal
    /\ previewUrl # ""
    /\ ~uploading
    /\ picReqs = <<>>
C11_WitnessBooking ==
    /\ lastEvent.type = "declineDelete"
    /\ deletes = <<>>
    /\ cancellingId = NoId
C11_WitnessResource ==
    /\ lastEvent.type = "declineResourceDelete"
    /\ rDeletes = <<>>
    /\ deletingId = NoId

\* C12: the booking form sends a create or update request only if a
\* resource is selected, start and end time are set, start is strictly before
\* end and, in create mode only, start is not in the past; otherwise it sends
\* nothing and shows the error of the first failing check in that order. In
\* edit mode a start time in the past is accepted.
C12_FirstError ==
    IF selectedResourceId = NoId THEN "Please select a resource"
    ELSE IF startTime = NoTime THEN "Please select a start time"
    ELSE IF endTime = NoTime THEN "Please select an end time"
    ELSE IF ~(startTime < endTime) THEN "End time must be after start time"
    ELSE "Start time cannot be in the past"
C12_Acceptable ==
    /\ selectedResourceId # NoId
    /\ startTime # NoTime
    /\ endTime # NoTime
    /\ startTime < endTime
    /\ isEditMode \/ ~(startTime < now)
C12_Validation ==
    [][lastEvent'.type \in {"bookingInvalid", "bookingSubmit"} =>
         IF C12_Acceptable
         THEN /\ lastEvent'.type = "bookingSubmit"
              /\ Len(fReqs') = Len(fReqs) + 1
              /\ fReqs'[Len(fReqs')].kind = IF isEditMode THEN "put" ELSE "post"
         ELSE /\ lastEvent'.type = "bookingInvalid"
              /\ fReqs' = fReqs
              /\ fError' = C12_FirstError]_vars
C12_Witness ==
    /\ lastEvent.type = "bookingSubmit"
    /\ isEditMode
    /\ startTime < now
    /\ Len(fReqs) = 1
C12_WitnessPast ==
    /\ lastEvent.type = "bookingInvalid"
    /\ fError = "Start time cannot be in the past"

\* C13: while a create or update request of the booking form is in flight
\* the form's fields and buttons are disabled, so at most one such request
\* is in flight at any time; after its response, success or failure, loading
\* is false and the controls are enabled again.
C13_Saves == {i \in DOMAIN fReqs : fReqs[i].kind \in {"post", "put"}}
C13_InFlight ==
    /\ Cardinality(C13_Saves) <= 1
    /\ (formMounted /\ C13_Saves # {}) => (fLoading /\ ~FormEnabled)
C13_OneRequest ==
    /\ []C13_InFlight
    /\ [][(lastEvent'.type \in {"bookingSaved", "bookingSaveFail"}
             /\ lastEvent'.arg.req.mounted) =>
            (~fLoading' /\ FormEnabled')]_vars
C13_Witness ==
    /\ lastEvent.type = "bookingSaveFail"
    /\ formMounted
    /\ ~fLoading
    /\ fReqs = <<>>

\* C14: after a successful submission, if an onSuccess callback was
\* supplied it is called and no navigation is ever scheduled; otherwise one
\* navigation to /bookings is scheduled and runs no earlier than 2000 ms
\* after the success. A failed submission calls nothing and schedules nothing.
C14_AfterSubmit ==
    /\ [](onSuccess => timers = <<>>)
    /\ [][/\ lastEvent'.type = "bookingSaved" =>
               /\ lastEvent'.arg.onSuccessCalled = onSuccess
               /\ IF onSuccess THEN timers' = timers
                  ELSE timers' = Append(timers, [set |-> now])
               /\ route' = route
          /\ lastEvent'.type = "bookingSaveFail" =>
               /\ timers' = timers
               /\ route' = route
          /\ lastEvent'.type = "navigate" =>
               /\ ~onSuccess
               /\ now - lastEvent'.arg.set >= 2000
               /\ route' = "/bookings"
               /\ Len(timers') = Len(timers) - 1]_vars
C14_Witness ==
    /\ lastEvent.type = "navigate"
    /\ route = "/bookings"
    /\ ~formMounted
    /\ now = lastEvent.arg.set + 2000

\* C15: in edit mode the rendered booking form shows the status field to
\* every user, staff or not, the field can be changed, and the update request
\* carries the chosen status; in create mode the field is not shown and the
\* create request carries no status.
C15_StatusInEditMode ==
    /\ [](FormRendered => (StatusFieldShown(isEditMode, user) <=> isEditMode))
    /\ [][/\ lastEvent'.type = "bookingSubmit" =>
               /\ fReqs'[Len(fReqs')].data = lastEvent'.arg
               /\ lastEvent'.arg.status = IF isEditMode THEN bookingStatus ELSE NULL
          /\ (lastEvent'.type = "changeField" /\ lastEvent'.arg = "status") =>
               isEditMode]_vars
C15_Witness ==
    /\ lastEvent.type = "bookingSubmit"
    /\ isEditMode
    /\ ~IsStaff(user)
    /\ lastEvent.arg.status = "cancelled"

\* C16 as claimed: whether the booking form renders the status field is
\* conditional on the admin role: a user who is not staff is not shown it.
C16_StatusFieldByRole ==
    (FormRendered /\ StatusFieldShown(isEditMode, user)) =>
        (user # NULL /\ IsStaff(user))

\* C16 as amended: whether the booking form renders the status field is
\* conditional on edit mode (a bookingId in the URL) and on nothing else:
\* for a user of either role it is rendered iff the form edits a booking.
C16_StatusFieldByMode ==
    FormRendered =>
        \A u \in Users : StatusFieldShown(isEditMode, u) <=> isEditMode
C16_Witness ==
    /\ FormRendered
    /\ isEditMode
    /\ ~IsStaff(user)
    /\ StatusFieldShown(isEditMode, user)
C16_WitnessCreate ==
    /\ FormRendered
    /\ ~isEditMode
    /\ IsStaff(user)
    /\ ~StatusFieldShown(isEditMode, user)

\* C17: a successful create resets start time, end time and notes to empty
\* and the selected resource too unless it came from the URL, so that the
\* form is not valid again until the times are entered anew; a successful
\* update leaves the form's values as they are.
C17_ResetAfterCreate ==
    /\ [][(lastEvent'.type = "bookingSaved" /\ lastEvent'.arg.req.mounted) =>
            IF lastEvent'.arg.req.kind = "post"
            THEN /\ startTime' = NoTime
                 /\ endTime' = NoTime
                 /\ notes' = ""
                 /\ selectedResourceId' = resourceId
                 /\ ~C12_Acceptable'
            ELSE UNCHANGED formFields]_vars
    /\ [][lastEvent'.type = "bookingSubmit" =>
            (startTime # NoTime /\ endTime # NoTime)]_vars
C17_Witness ==
    /\ lastEvent.type = "bookingSaved"
    /\ lastEvent.arg.req.kind = "post"
    /\ formMounted
    /\ resourceId # NoId
    /\ selectedResourceId = resourceId
    /\ startTime = NoTime
C17_WitnessUpdate ==
    /\ lastEvent.type = "bookingSaved"
    /\ lastEvent.arg.req.kind = "put"
    /\ formMounted
    /\ startTime # NoTime
    /\ notes = "  "

\* C18: there is no automatic retry. On the bookings page and on the resource
\* page one list GET is sent on mount and every further GET is sent by exactly
\* one click on Retry, which sends one GET with the same request; Retry is
\* offered only after a fetch failed; a successful fetch replaces the
\* loading or error view by the list as the backend holds it.
C18_GetOnMount ==
    /\ (route = "/bookings" /\ bLoading) => Len(fetches) = 1
    /\ (route = "/resources" /\ rLoading) => Len(rFetches) = 1
C18_BookingsStep ==
    /\ (Len(fetches') > Len(fetches) \/ lastEvent'.type = "retry") =>
         /\ lastEvent'.type = "retry"
         /\ BookingsView = "error"
         /\ fetches' = Append(fetches, [auth |-> AuthHeader(ls)])
    /\ (BookingsView' = "error" /\ BookingsView # "error") =>
         lastEvent'.type = "fetchFail"
    /\ lastEvent'.type = "fetchOk" =>
         /\ BookingsView' \in {"empty", "table"}
         /\ bookings' = srv
C18_ResourcesStep ==
    /\ (Len(rFetches') > Len(rFetches) \/ lastEvent'.type = "rRetry") =>
         /\ lastEvent'.type = "rRetry"
         /\ ResourcesView = "error"
         /\ rFetches' = Append(rFetches, [auth |-> AuthHeader(ls)])
    /\ (ResourcesView' = "error" /\ ResourcesView # "error") =>
         lastEvent'.type = "rFetchFail"
    /\ lastEvent'.type = "rFetchOk" =>
         /\ ResourcesView' \in {"empty", "list"}
         /\ resources' = rSrv
C18_NoAutomaticRetry ==
    C18_GetOnMount /\ [][C18_BookingsStep /\ C18_ResourcesStep]_vars
C18_Witness ==
    /\ lastEvent.type = "rRetry"
    /\ rLoading
    /\ Len(rFetches) = 1
C18_WitnessBookings ==
    /\ lastEvent.type = "retry"
    /\ bLoading
    /\ Len(fetches) = 1
C18_WitnessList ==
    /\ lastEvent.type = "rFetchOk"
    /\ ResourcesView = "list"
\* C19: while the user is not staff (no user, or is_staff false) the resource
\* modal does not open and the resource page sends no POST, PUT or DELETE
\* on /resources/.
C19_NotStaff == user = NULL \/ ~IsStaff(user)
C19_NonStaffSendsNothing ==
    [][C19_NotStaff =>
         /\ Len(rSaves') <= Len(rSaves)
         /\ Len(rDeletes') <= Len(rDeletes)
         /\ showModal' => showModal]_vars

\* C20: submitting the resource modal sends a request only if the name is not
\* blank after trimming and the capacity is at least 1; a failed validation
\* and a failed request leave the list, the open modal and the entered data
\* as they are; a successful create appends the returned resource, a
\* successful update changes only the resource with the edited id, and both
\* close the modal.
C20_Valid(data) == data.name \notin {"", "  "} /\ data.capacity >= 1
C20_SameButFor(old, new, id, data) ==
    /\ Len(new) = Len(old)
    /\ \A k \in DOMAIN old :
         IF old[k].id = id
         THEN new[k] = Resource(id, data.name, data.description, data.capacity,
                                data.is_available)
         ELSE new[k] = old[k]
C20_SubmitSemantics ==
    [][/\ lastEvent'.type = "resourceInvalid" =>
            /\ ~C20_Valid(formData)
            /\ rSaves' = rSaves
       /\ lastEvent'.type = "resourceSubmit" =>
            /\ C20_Valid(formData)
            /\ Len(rSaves') = Len(rSaves) + 1
       /\ lastEvent'.type \in {"resourceInvalid", "resourceSubmit", "resourceSaveFail"} =>
            /\ resources' = resources
            /\ showModal' = showModal
            /\ formData' = formData
            /\ editingResource' = editingResource
       /\ lastEvent'.type = "resourceSaved" =>
            LET req == lastEvent'.arg.req IN
            /\ C20_Valid(req.data)
            /\ ~showModal'
            /\ IF req.kind = "post"
               THEN /\ Len(resources') = Len(resources) + 1
                    /\ SubSeq(resources', 1, Len(resources)) = resources
                    /\ resources'[Len(resources')] = rSrv'[Len(rSrv')]
               ELSE C20_SameButFor(resources, resources', req.editing.id, req.data)
      ]_vars
C20_Witness ==
    /\ lastEvent.type = "resourceSaved"
    /\ lastEvent.arg.req.kind = "put"
    /\ Len(resources) = 2
    /\ resources[1].name # resources[2].name
C20_WitnessFailed ==
    /\ lastEvent.type = "resourceSaveFail"
    /\ showModal
    /\ formData.name = "Lab"

\* C21: a profile picture upload is a chain: the Cloudinary upload starts only
\* for an image of at most 5 MB, the PATCH profile/picture/ is sent only when
\* the Cloudinary upload succeeded, and onUpdate gets the new URL only when
\* the PATCH succeeded; a failed step starts no later step and calls no
\* onUpdate, keeps the preview, shows an error and leaves uploading false.
C21_AtStage(reqs, stage) ==
    Cardinality({i \in DOMAIN reqs : reqs[i].kind = "upload" /\ reqs[i].stage = stage})
C21_FailureLeaves ==
    /\ picError' # ""
    /\ ~uploading'
    /\ previewUrl' = previewUrl
    /\ profilePicture' = profilePicture
    /\ showProfileModal' = showProfileModal
    /\ C21_AtStage(picReqs', "cloudinary") <= C21_AtStage(picReqs, "cloudinary")
    /\ C21_AtStage(picReqs', "backend") <= C21_AtStage(picReqs, "backend")
C21_UploadChain ==
    [][/\ C21_AtStage(picReqs', "cloudinary") > C21_AtStage(picReqs, "cloudinary") =>
            /\ lastEvent'.type = "fileSelect"
            /\ lastEvent'.arg.type = "image/png"
            /\ lastEvent'.arg.size <= 5 * 1024 * 1024
       /\ C21_AtStage(picReqs', "backend") > C21_AtStage(picReqs, "backend") =>
            /\ lastEvent'.type = "cloudinaryOk"
            /\ C21_AtStage(picReqs', "cloudinary") = C21_AtStage(picReqs, "cloudinary") - 1
       /\ (lastEvent'.type = "pictureUpdated" /\ lastEvent'.arg.kind = "upload") =>
            /\ lastEvent'.arg.stage = "backend"
            /\ profilePicture' = UploadedUrl
       /\ profilePicture' # profilePicture => lastEvent'.type = "pictureUpdated"
       /\ (/\ lastEvent'.type = "fileSelect"
           /\ lastEvent'.arg # NoFile
           /\ \/ lastEvent'.arg.type # "image/png"
              \/ lastEvent'.arg.size > 5 * 1024 * 1024) => C21_FailureLeaves
       /\ (/\ lastEvent'.type = "pictureFail"
           /\ lastEvent'.arg.req.kind = "upload"
           /\ lastEvent'.arg.req.mounted) => C21_FailureLeaves
      ]_vars
C21_Witness ==
    /\ lastEvent.type = "pictureFail"
    /\ lastEvent.arg.req.kind = "upload"
    /\ lastEvent.arg.req.stage = "backend"
    /\ lastEvent.arg.req.mounted
    /\ previewUrl = "pic0"
C21_WitnessUpdated ==
    /\ lastEvent.type = "pictureUpdated"
    /\ lastEvent.arg.kind = "upload"
    /\ profilePicture = UploadedUrl

\* C22: a submit of the login form calls login(username, password) once, and
\* login is called by nothing else; the page navigates to "/" when the call
\* resolved true and only then; when it resolved false the location stays
\* and the page shows the failure and is no longer loading.
C22_LoginSubmit ==
    [][/\ lastEvent'.type = "submitLogin" =>
            /\ Len(logins') = Len(logins) + 1
            /\ SubSeq(logins', 1, Len(logins)) = logins
            /\ logins'[Len(logins')].cred = lastEvent'.arg
            /\ logins'[Len(logins')].phase = "post"
            /\ route' = route
       /\ Len(logins') > Len(logins) => lastEvent'.type = "submitLogin"
       /\ lastEvent'.type = "loginGetOk" =>
            /\ route' = "/"
            /\ Len(logins') = Len(logins) - 1
       /\ lastEvent'.type \in {"loginPostFail", "loginGetFail"} =>
            /\ route' = route
            /\ Len(logins') = Len(logins) - 1
            /\ lastEvent'.arg.live =>
                  /\ lpError' = "Invalid username or password. Please try again."
                  /\ ~lpLoading'
       /\ (route = "/login" /\ route' # "/login") =>
            lastEvent'.type \in {"loginGetOk", "goto"}
      ]_vars
C22_Witness ==
    /\ lastEvent.type = "loginGetFail"
    /\ lastEvent.arg.live
    /\ route = "/login"
    /\ lpError # ""
C22_WitnessNavigated ==
    /\ lastEvent.type = "loginGetOk"
    /\ lastEvent.arg.live
    /\ route = "/"

\* C23: a submit of the registration form calls register(username, email,
\* password) once, and register is called by nothing else; the page navigates
\* to /login when the result has success true and only then; otherwise the
\* location stays and the page shows the returned error; submitting and
\* either answer leave token, user and localStorage as they were.
C23_Returned(data) ==
    CHOOSE m \in {data.email, data.username, data.password, data.non_field_errors,
                  "Registration failed. Please check your information and try again."} :
        /\ m # NULL
        /\ data.email # NULL => m = data.email
        /\ (data.email = NULL /\ data.username # NULL) => m = data.username
        /\ (data.email = NULL /\ data.username = NULL /\ data.password # NULL) =>
              m = data.password
        /\ ( /\ data.email = NULL /\ data.username = NULL /\ data.password = NULL
             /\ data.non_field_errors # NULL) => m = data.non_field_errors
        /\ ( /\ data.email = NULL /\ data.username = NULL /\ data.password = NULL
             /\ data.non_field_errors = NULL) =>
              m = "Registration failed. Please check your information and try again."
C23_Register ==
    [][/\ lastEvent'.type = "submitRegister" =>
            /\ Len(regs') = Len(regs) + 1
            /\ SubSeq(regs', 1, Len(regs)) = regs
            /\ regs'[Len(regs')].cred = lastEvent'.arg
            /\ route' = route
       /\ Len(regs') > Len(regs) => lastEvent'.type = "submitRegister"
       /\ lastEvent'.type = "registerOk" =>
            /\ route' = "/login"
            /\ Len(regs') = Len(regs) - 1
       /\ lastEvent'.type = "registerFail" =>
            /\ route' = route
            /\ Len(regs') = Len(regs) - 1
            /\ lastEvent'.arg.call.live =>
                  /\ rpError' = C23_Returned(lastEvent'.arg.data)
                  /\ ~rpLoading'
       /\ (route = "/register" /\ route' = "/login") =>
            lastEvent'.type \in {"registerOk", "goto"}
       /\ lastEvent'.type \in {"submitRegister", "registerOk", "registerFail"} =>
            /\ ls' = ls
            /\ token' = token
            /\ user' = user
            /\ loadReqs' = loadReqs
            /\ logins' = logins
      ]_vars
C23_Witness ==
    /\ lastEvent.type = "registerFail"
    /\ lastEvent.arg.call.live
    /\ lastEvent.arg.data.email = NULL
    /\ lastEvent.arg.data.username # NULL
    /\ lastEvent.arg.data.password # NULL
    /\ rpError = "username taken"
    /\ route = "/register"
C23_WitnessRegistered ==
    /\ lastEvent.type = "registerOk"
    /\ lastEvent.arg.live
    /\ route = "/login"
    /\ user = NULL
    /\ ls = NULL

\* C24: once a profile picture update has succeeded and no request for the
\* user is pending, the profile_picture of the context's user is the picture
\* just set (empty after a removal).
C24_ContextPictureFollows ==
    (lastEvent.type = "pictureUpdated" /\ loadReqs = <<>>) =>
        userPicture = (IF lastEvent.arg.kind = "upload" THEN UploadedUrl ELSE NULL)

\* C25: in every reachable state of the auth provider a non-null user comes
\* with a stored token: the token state is non-null and localStorage has a
\* token entry.
C25_UserHasToken == user # NULL => (token # NULL /\ ls # NULL)

\* C26: after logout() user stays null until login is called again; in
\* particular the step that follows a logout never sets user, since the
\* answer to a request sent before the logout is not a call of login.
C26_NullAfterLogout == [][lastEvent.type = "logout" => user' = NULL]_vars

\* C27: when login() resolves false, a token obtained by that attempt (one
\* that was not stored when login was called) is neither in localStorage nor
\* in the token state.
C27_FailedLoginLeavesNoToken ==
    [][lastEvent'.type \in {"loginPostFail", "loginGetFail"} =>
         LET call == lastEvent'.arg IN
         (call.newToken # NULL /\ call.before # call.newToken) =>
             (ls' # call.newToken /\ token' # call.newToken)
      ]_vars

\* C28: in edit mode a PUT is sent only from a form into which the booking
\* has been loaded: the form mounts without a resource, only the successful
\* GET /bookings/{id}/ puts one in, and a PUT is sent only when the GET has
\* returned and the form holds the loaded booking's resource; while the GET
\* is pending and after it failed a submit sends nothing.
C28_PutSent ==
    /\ Len(fReqs') = Len(fReqs) + 1
    /\ fReqs'[Len(fReqs')].kind = "put"
C28_PutOnlyAfterLoad ==
    /\ [](lastEvent.type = "mountForm" /\ isEditMode =>
             selectedResourceId = NoId /\ fetchingBooking)
    /\ [][/\ (isEditMode /\ selectedResourceId' # selectedResourceId) =>
               /\ lastEvent'.type = "bookingFetched"
               /\ selectedResourceId' = fSrv.resource
          /\ C28_PutSent =>
               /\ isEditMode
               /\ ~fetchingBooking
               /\ \A i \in DOMAIN fReqs : fReqs[i].kind # "getBooking"
               /\ selectedResourceId = fSrv.resource
               /\ selectedResourceId # NoId
          /\ (isEditMode /\ lastEvent'.type = "formFetchFail") =>
               /\ selectedResourceId' = NoId
               /\ startTime' = NoTime
               /\ endTime' = NoTime
         ]_vars
C28_Witness ==
    /\ isEditMode
    /\ lastEvent.type = "bookingInvalid"
    /\ lastEvent.arg = "Please select a resource"
    /\ startTime # NoTime
    /\ endTime # NoTime
    /\ startTime < endTime
    /\ fReqs = <<>>
C28_WitnessLoaded ==
    /\ isEditMode
    /\ lastEvent.type = "bookingSubmit"
    /\ selectedResourceId = fSrv.resource

\* C29: while a resource create or update is in flight (submitting is true)
\* the modal stays open and keeps its target and its data: until the answer
\* arrives no step changes showModal, editingResource or formData.
C29_ModalHeldWhileSubmitting ==
    [][(submitting /\ lastEvent'.type \notin {"resourceSaved", "resourceSaveFail"}) =>
           /\ showModal
           /\ showModal'
           /\ editingResource' = editingResource
           /\ formData' = formData
      ]_vars

\* C30: a booking form instance has at most one delayed navigate('/bookings')
\* scheduled, so it navigates at most once.
C30_ScheduledOnce == Len(timers) <= 1
====
